---- MODULE Spec2Model ----
(***************************************************************************)
(* State-machine model of the robotics_lib simulation kernel: the tile and *)
(* content property tables, the energy ledger, the backpack, runner        *)
(* construction and the action-resolution engine (go, teleport, destroy,   *)
(* put, craft, discover_tiles, one_direction_view), the environmental      *)
(* clock and the game tick.                                                *)
(***************************************************************************)
EXTENDS Integers, Sequences, FiniteSets, TLC

VARIABLES
    phase,        \* "new" before Runner::new, then "running", "invalid" or "panicked"
    map,          \* world.map: sequence of rows of tiles (row r, col c at map[r+1][c+1])
    dimension,    \* world.dimension
    weather_forecast,          \* environmental_conditions.weather_forecast
    time_progression_minutes,  \* environmental_conditions.time_progression_minutes
    hour,         \* environmental_conditions.time_of_day.hour
    minute,       \* environmental_conditions.time_of_day.minute
    discoverable, \* world.discoverable
    coordinate,   \* robot coordinate <<row, col>>
    energy_level, \* robot energy
    contents,     \* robot backpack contents, keyed by content kind
    score,        \* world.score_counter.score, in units of the normalisation factor
    res,          \* outcome of the last call: [op, status, value]
    returned,     \* tiles returned by the last discover_tiles or one_direction_view
    events,       \* what the robot has observed, in order, during the last game_tick
    steps,        \* number of engine calls made so far
    ticks,        \* number of clock ticks made so far
    days,         \* number of ticks that reported a day change
    forecast0,    \* the forecast environmental_conditions was created with
    plot,         \* interface PLOT: the coordinates seen so far, kept by the process
    viewed,       \* the coordinates the views of the current world have returned
    worlds,       \* number of runners built by this process
    graph,        \* tools/dijkstra.rs: adjacency lists of Node, node n at graph[n+1]
    path_start,   \* build_path: start, the node the next segment starts from
    target_nodes, \* build_path: the targets still pending
    final_path,   \* build_path: the direction segments committed so far
    shortest_distances,  \* dijkstra: distance, Option<i32> per node
    predecessors, \* dijkstra: predecessor, Option<usize> per node
    visited,      \* dijkstra: bool per node
    heap,         \* dijkstra: the entries of the BinaryHeap
    start0,       \* the start node build_path was called with
    targets0      \* the target list build_path was called with

\* the environmental conditions and the history kept about them
clock == <<weather_forecast, time_progression_minutes, hour, minute, days, forecast0>>

\* the discovery plot and the history kept about it
discovery == <<plot, viewed, worlds>>

\* the state of the pathfinding tools
tools == <<graph, path_start, target_nodes, final_path, shortest_distances,
           predecessors, visited, heap, start0, targets0>>

vars == <<phase, map, dimension, clock, discoverable, coordinate, energy_level,
          contents, score, res, returned, events, steps, ticks, discovery, tools>>

-----------------------------------------------------------------------------
(* Bounds of the model *)

MaxSteps == 2

MaxTicks == 26

-----------------------------------------------------------------------------
(* Program constants *)

MAX_ENERGY_LEVEL == 1000
BACKPACK_SIZE == 20
TELEPORT_COST == 30

Min(a, b) == IF a <= b THEN a ELSE b

-----------------------------------------------------------------------------
(* world/tile.rs: content kinds in Content::index order *)

ContentOrder ==
    <<"Rock", "Tree", "Garbage", "Fire", "Coin", "Bin", "Crate", "Bank",
      "Water", "None", "Fish", "Market", "Building", "Bush", "JollyBlock",
      "Scarecrow">>

ContentKinds == {ContentOrder[i] : i \in 1..Len(ContentOrder)}

RangeKinds == {"Bin", "Crate", "Bank"}

UnitKinds == {"Fire", "Building", "Scarecrow", "None"}

\* A content value: scalar kinds carry their amount in n, range kinds carry
\* start..end in n and end, unit kinds carry nothing.
Content(kind, n, end) == [kind |-> kind, n |-> n, end |-> end]

NoContent == Content("None", 0, 0)

Fire == Content("Fire", 0, 0)

to_default(c) == Content(c.kind, 0, 0)

\* to_value losing the value it is given
to_value_dropped(c, value) == Content(c.kind, 0, 0)

to_value(c, value) ==
    IF c.kind \in UnitKinds THEN Content(c.kind, 0, 0)
    ELSE IF c.kind \in RangeKinds THEN Content(c.kind, 0, value)
    ELSE Content(c.kind, value, 0)

\* get_value().0 : TRUE when the first component is Some
has_value(c) == c.kind \notin (RangeKinds \cup {"None", "Building", "Scarecrow"})

get_value(c) == IF c.kind = "Fire" THEN 1 ELSE c.n

world_generator_max(c) ==
    IF c.kind \in UnitKinds THEN 0
    ELSE IF c.kind \in RangeKinds THEN c.end
    ELSE c.n

ContentProps(kind) ==
    CASE kind = "Rock"       -> [destroy |-> TRUE,  max |-> 4,  cost |-> 1, score_weight |-> 1,
                                 craft |-> <<>>]
      [] kind = "Tree"       -> [destroy |-> TRUE,  max |-> 5,  cost |-> 3, score_weight |-> 3,
                                 craft |-> <<>>]
      [] kind = "Garbage"    -> [destroy |-> TRUE,  max |-> 3,  cost |-> 4, score_weight |-> 2,
                                 craft |-> << <<"Rock", 3>>, <<"Tree", 1>>, <<"Fish", 1>> >>]
      [] kind = "Fire"       -> [destroy |-> TRUE,  max |-> 1,  cost |-> 5, score_weight |-> 10,
                                 craft |-> <<>>]
      [] kind = "Coin"       -> [destroy |-> TRUE,  max |-> 10, cost |-> 0, score_weight |-> 2,
                                 craft |-> << <<"Garbage", 5>> >>]
      [] kind = "Bin"        -> [destroy |-> FALSE, max |-> 10, cost |-> 0, score_weight |-> 10,
                                 craft |-> <<>>]
      [] kind = "Crate"      -> [destroy |-> FALSE, max |-> 20, cost |-> 0, score_weight |-> 7,
                                 craft |-> <<>>]
      [] kind = "Bank"       -> [destroy |-> FALSE, max |-> 50, cost |-> 0, score_weight |-> 10,
                                 craft |-> <<>>]
      [] kind = "Water"      -> [destroy |-> TRUE,  max |-> 20, cost |-> 3, score_weight |-> 2,
                                 craft |-> <<>>]
      [] kind = "None"       -> [destroy |-> FALSE, max |-> 0,  cost |-> 0, score_weight |-> 0,
                                 craft |-> <<>>]
      [] kind = "Fish"       -> [destroy |-> TRUE,  max |-> 3,  cost |-> 1, score_weight |-> 1,
                                 craft |-> <<>>]
      [] kind = "Market"     -> [destroy |-> FALSE, max |-> 20, cost |-> 0, score_weight |-> 5,
                                 craft |-> <<>>]
      [] kind = "Building"   -> [destroy |-> FALSE, max |-> 0,  cost |-> 0, score_weight |-> 0,
                                 craft |-> <<>>]
      [] kind = "Bush"       -> [destroy |-> TRUE,  max |-> 10, cost |-> 0, score_weight |-> 1,
                                 craft |-> <<>>]
      [] kind = "JollyBlock" -> [destroy |-> TRUE,  max |-> 2,  cost |-> 2, score_weight |-> 2,
                                 craft |-> << <<"Rock", 2>>, <<"Tree", 2>>, <<"Garbage", 2>>,
                                              <<"Coin", 2>>, <<"Fish", 2>>, <<"Scarecrow", 2>>,
                                              <<"Bush", 2>> >>]
      [] kind = "Scarecrow"  -> [destroy |-> FALSE, max |-> 0,  cost |-> 0, score_weight |-> 2,
                                 craft |-> <<>>]

-----------------------------------------------------------------------------
(* world/tile.rs: tile types *)

TileTypes ==
    {"DeepWater", "ShallowWater", "Sand", "Grass", "Street", "Hill", "Mountain",
     "Snow", "Lava", "Teleport(false)", "Teleport(true)", "Wall"}

IsTeleport(tile_type) == tile_type \in {"Teleport(false)", "Teleport(true)"}

TileTypeProps(tile_type) ==
    CASE tile_type = "DeepWater" ->
            [walk |-> FALSE, cost |-> 0, hold |-> {"Water", "None", "Fish"}]
      [] tile_type = "ShallowWater" ->
            [walk |-> TRUE, cost |-> 5, hold |-> {"Water", "None", "Fish", "Scarecrow"}]
      [] tile_type = "Sand" ->
            [walk |-> TRUE, cost |-> 3,
             hold |-> {"Rock", "Garbage", "Coin", "Bin", "Crate", "None", "JollyBlock",
                       "Scarecrow"}]
      [] tile_type = "Grass" ->
            [walk |-> TRUE, cost |-> 1, hold |-> ContentKinds \ {"Water", "Fish"}]
      [] tile_type = "Street" ->
            [walk |-> TRUE, cost |-> 0,
             hold |-> {"Rock", "Garbage", "Coin", "Bin", "Bank", "None", "Market",
                       "Building", "JollyBlock", "Scarecrow"}]
      [] tile_type = "Hill" ->
            [walk |-> TRUE, cost |-> 5,
             hold |-> {"Rock", "Tree", "Garbage", "Fire", "Coin", "Bin", "Crate", "None",
                       "Building", "Bush", "JollyBlock", "Scarecrow"}]
      [] tile_type = "Mountain" ->
            [walk |-> TRUE, cost |-> 10,
             hold |-> {"Rock", "Tree", "Garbage", "Coin", "Bin", "Crate", "None",
                       "Building", "Bush", "JollyBlock", "Scarecrow"}]
      [] tile_type = "Snow" ->
            [walk |-> TRUE, cost |-> 3,
             hold |-> {"Rock", "Coin", "Crate", "None", "Building", "Bush", "JollyBlock",
                       "Scarecrow"}]
      [] tile_type = "Lava" ->
            [walk |-> FALSE, cost |-> 0, hold |-> {"None"}]
      [] IsTeleport(tile_type) ->
            [walk |-> TRUE, cost |-> 0,
             hold |-> {"Rock", "Garbage", "Coin", "Bin", "Bank", "None", "Market"}]
      [] tile_type = "Wall" ->
            [walk |-> FALSE, cost |-> 0, hold |-> {"Fire", "None"}]

can_hold(tile_type, c) == c.kind \in TileTypeProps(tile_type).hold

Tile(tile_type, c, elevation) ==
    [tile_type |-> tile_type, content |-> c, elevation |-> elevation]

-----------------------------------------------------------------------------
(* energy/mod.rs *)

Energy_new(level) == Min(level, MAX_ENERGY_LEVEL)

has_enough_energy(level, energy_needed) == level >= energy_needed

\* consume_energy checking the level without subtracting from it
consume_energy_free(level, energy_needed) ==
    IF ~has_enough_energy(level, energy_needed)
    THEN [ok |-> FALSE, level |-> level]
    ELSE [ok |-> TRUE, level |-> level]

\* Result<(), LibError> together with the level after the call
consume_energy(level, energy_needed) ==
    IF ~has_enough_energy(level, energy_needed)
    THEN [ok |-> FALSE, level |-> level]
    ELSE [ok |-> TRUE, level |-> level - energy_needed]

\* recharge_energy without the cap at MAX_ENERGY_LEVEL
recharge_energy_unbounded(level, energy_to_add) == level + energy_to_add

recharge_energy(level, energy_to_add) == Min(MAX_ENERGY_LEVEL, level + energy_to_add)

-----------------------------------------------------------------------------
(* world/environmental_conditions.rs: hour and minute are u8 *)

WeatherTypes == {"Sunny", "Rainy", "Foggy", "TropicalMonsoon", "TrentinoSnow"}

U8 == 256

\* "Ok" or the error of EnvironmentalConditions::new
EnvironmentalConditions_new(forecast, minutes, starting_hour) ==
    IF Len(forecast) = 0 THEN "EmptyForecast"
    ELSE IF starting_hour > 24 THEN "WrongHour"
    ELSE "Ok"

get_weather_condition(forecast) == Head(forecast)

\* next_day: pop_front, push_back
next_day(forecast) == Append(Tail(forecast), Head(forecast))

\* the part of TimeOfDay::advance after the sum m has been formed: the loop
\* that carries hours out of m, then the wrap of the hour
advance_carry(h, m) ==
    LET carried == h + (m \div 60)
    IN  IF carried > 23
        THEN [panic |-> FALSE, hour |-> carried - 24, minute |-> m % 60,
              is_day_changed |-> TRUE]
        ELSE [panic |-> FALSE, hour |-> carried, minute |-> m % 60,
              is_day_changed |-> FALSE]

\* TimeOfDay::advance: minute + time_progression_minutes is a u8 sum, which
\* panics or wraps when it exceeds 255
advance(h, m, minutes) ==
    IF m + minutes < U8 THEN {advance_carry(h, m + minutes)}
    ELSE {[panic |-> TRUE, hour |-> h, minute |-> m, is_day_changed |-> FALSE],
          advance_carry(h, (m + minutes) % U8)}

\* tick: the outcomes of advance, the forecast rotated on a day change
tick(forecast, minutes, h, m) ==
    {[panic |-> a.panic, hour |-> a.hour, minute |-> a.minute,
      is_day_changed |-> a.is_day_changed,
      forecast |-> IF a.is_day_changed THEN next_day(forecast) ELSE forecast] :
        a \in advance(h, m, minutes)}

-----------------------------------------------------------------------------
(* runner/backpack.rs and the backpack helpers of utils/mod.rs *)

BackPack_new == [k \in ContentKinds |-> 0]

RECURSIVE SumUpTo(_, _)
SumUpTo(bp, i) == IF i = 0 THEN 0 ELSE bp[ContentOrder[i]] + SumUpTo(bp, i - 1)

\* contents.values().sum()
Total(bp) == SumUpTo(bp, Len(ContentOrder))

\* add_to_backpack without the cap at the free space
add_to_backpack_uncapped(bp, kind, quantity) ==
    LET remainder == BACKPACK_SIZE - Total(bp)
    IN  [bp  |-> [bp EXCEPT ![kind] = @ + quantity],
         ok  |-> remainder >= quantity,
         amt |-> quantity]

\* add_to_backpack adding nothing when the quantity does not fit
add_to_backpack_refusing(bp, kind, quantity) ==
    LET remainder == BACKPACK_SIZE - Total(bp)
    IN  IF remainder >= quantity
        THEN [bp |-> [bp EXCEPT ![kind] = @ + quantity], ok |-> TRUE, amt |-> quantity]
        ELSE [bp |-> bp, ok |-> FALSE, amt |-> 0]

\* [bp: backpack after the call, ok: Ok or Err(NotEnoughSpace), amt: the payload]
add_to_backpack(bp, kind, quantity) ==
    LET remainder == BACKPACK_SIZE - Total(bp)
        quantity_to_add == Min(quantity, remainder)
    IN  [bp  |-> [bp EXCEPT ![kind] = @ + quantity_to_add],
         ok  |-> remainder >= quantity,
         amt |-> quantity_to_add]

\* [bp: backpack after the call, ok: Ok or Err(NoContent), amt: the removed quantity]
remove_from_backpack(bp, kind, quantity) ==
    IF bp[kind] = 0 THEN [bp |-> bp, ok |-> FALSE, amt |-> 0]
    ELSE IF bp[kind] <= quantity
         THEN [bp |-> [bp EXCEPT ![kind] = 0], ok |-> TRUE, amt |-> bp[kind]]
         ELSE [bp |-> [bp EXCEPT ![kind] = @ - quantity], ok |-> TRUE, amt |-> quantity]

\* can_store ignoring the requested quantity
can_store_unrequested(bp, level, available_space, kind_in, kind, quantity) ==
    LET cost == ContentProps(kind).cost
        quantity_to_remove == Min(available_space, bp[kind_in])
    IN  [ok |-> has_enough_energy(level, cost * quantity_to_remove),
         quantity_to_remove |-> quantity_to_remove,
         cost |-> cost * quantity_to_remove]

\* [ok: Ok or Err(NotEnoughEnergy), quantity_to_remove, cost]
can_store(bp, level, available_space, kind_in, kind, quantity) ==
    LET cost == ContentProps(kind).cost
        quantity_to_remove == Min(Min(available_space, bp[kind_in]), quantity)
    IN  [ok |-> has_enough_energy(level, cost * quantity_to_remove),
         quantity_to_remove |-> quantity_to_remove,
         cost |-> cost * quantity_to_remove]

-----------------------------------------------------------------------------
(* world/score.rs: the table entry of a kind is its score weight times the *)
(* normalisation factor; the score is kept in units of that factor.        *)

\* add_score_flat taking the value away
add_score_flat_negated(sc, value) == sc - value

add_score_flat(sc, value) == sc + value

add_score_destroy(sc, kind, quantity) ==
    add_score_flat(sc, ContentProps(kind).score_weight * quantity)

add_score_put(sc, kind, quantity) ==
    add_score_flat(sc, ContentProps(kind).score_weight * quantity)

-----------------------------------------------------------------------------
(* utils/mod.rs: coordinates and bounds *)

Directions == {"Up", "Down", "Left", "Right"}

TileAt(m, row, col) == m[row + 1][col + 1]

in_bounds(coord, dim, direction) ==
    ~ CASE direction = "Up"    -> coord[1] = 0
        [] direction = "Down"  -> coord[1] = dim - 1
        [] direction = "Left"  -> coord[2] = 0
        [] direction = "Right" -> coord[2] = dim - 1

get_coords_row_col(coord, direction) ==
    CASE direction = "Up"    -> <<coord[1] - 1, coord[2]>>
      [] direction = "Down"  -> <<coord[1] + 1, coord[2]>>
      [] direction = "Left"  -> <<coord[1], coord[2] - 1>>
      [] direction = "Right" -> <<coord[1], coord[2] + 1>>

go_allowed_row_col(dim, row, col) == row < dim /\ col < dim

\* "Ok" or the error of go_allowed
go_allowed(m, coord, dim, direction) ==
    IF ~in_bounds(coord, dim, direction) THEN "OutOfBounds"
    ELSE LET t == get_coords_row_col(coord, direction)
         IN  IF ~TileTypeProps(TileAt(m, t[1], t[2]).tile_type).walk
             THEN "CannotWalk" ELSE "Ok"

\* teleport_allowed accepting a target outside the map
teleport_allowed_unbounded(m, coord, dim, target) ==
    IF TileAt(m, coord[1], coord[2]).tile_type # "Teleport(true)"
    THEN "OperationNotAllowed"
    ELSE IF /\ go_allowed_row_col(dim, target[1], target[2])
            /\ TileAt(m, target[1], target[2]).tile_type # "Teleport(true)"
    THEN "OperationNotAllowed" ELSE "Ok"

\* "Ok" or the error of teleport_allowed
teleport_allowed(m, coord, dim, target) ==
    IF ~go_allowed_row_col(dim, target[1], target[2]) THEN "OutOfBounds"
    ELSE IF \/ TileAt(m, coord[1], coord[2]).tile_type # "Teleport(true)"
            \/ TileAt(m, target[1], target[2]).tile_type # "Teleport(true)"
         THEN "OperationNotAllowed" ELSE "Ok"

\* "Ok", "NoContent", or "CannotDestroy" when the flag returned is false
can_destroy(m, dim, row, col) ==
    IF ~go_allowed_row_col(dim, row, col) THEN "OutOfBounds"
    ELSE IF TileAt(m, row, col).content = NoContent THEN "NoContent"
    ELSE IF ContentProps(TileAt(m, row, col).content.kind).destroy THEN "Ok"
    ELSE "CannotDestroy"

\* calculate_cost_go_with_environment: the f64 increment is kept in tenths
DayTime(h) ==
    IF h <= 6 \/ h >= 21 THEN "Night"
    ELSE IF h <= 11 THEN "Morning" ELSE "Afternoon"

calculate_cost_go_with_environment(cost, w, h, tile_type) ==
    LET weather_inc ==
            CASE w = "Sunny" -> 0
              [] w = "Rainy" -> cost * 11
              [] w = "TropicalMonsoon" -> cost * 20
              [] tile_type = "Street" /\ w \in {"TrentinoSnow", "Foggy"} -> 10
              [] tile_type = "Hill" /\ w = "TrentinoSnow" -> cost * 16
              [] tile_type = "Mountain" /\ w = "TrentinoSnow" -> cost * 17
              [] tile_type = "Snow" /\ w = "TrentinoSnow" -> cost * 20
              [] OTHER -> 0
        time_inc ==
            CASE tile_type = "Sand" /\ DayTime(h) = "Afternoon" -> cost * 17
              [] DayTime(h) = "Morning" -> cost * 11
              [] DayTime(h) = "Afternoon" -> 0
              [] OTHER -> cost * 14
        increment == (weather_inc + time_inc + 9) \div 10
    IN  cost + increment

-----------------------------------------------------------------------------
(* world/world_generator.rs *)

\* the value check_world compares with world_generator_max
check_world_value(c) ==
    IF c.kind \in UnitKinds THEN 0
    ELSE IF c.kind \in RangeKinds THEN c.end
    ELSE c.n

check_tile(tile) ==
    IF tile.tile_type = "Teleport(true)" THEN "TeleportIsTrueOnGeneration"
    ELSE IF check_world_value(tile.content) > world_generator_max(tile.content)
         THEN "ContentValueIsHigherThanMax"
    ELSE IF ~can_hold(tile.tile_type, to_default(tile.content))
         THEN "ContentNotAllowedOnTile"
    ELSE "Ok"

RECURSIVE check_row(_, _)
check_row(row, i) ==
    IF i > Len(row) THEN "Ok"
    ELSE IF check_tile(row[i]) # "Ok" THEN check_tile(row[i])
    ELSE check_row(row, i + 1)

RECURSIVE check_rows(_, _)
check_rows(world, r) ==
    IF r > Len(world) THEN "Ok"
    ELSE IF Len(world) # Len(world[r]) THEN "WorldIsNotASquare"
    ELSE IF check_row(world[r], 1) # "Ok" THEN check_row(world[r], 1)
    ELSE check_rows(world, r + 1)

check_world(world) == check_rows(world, 1)

-----------------------------------------------------------------------------
(* interface/mod.rs: the engine entry points.  Each is modelled by the set *)
(* of outcomes the call can produce from a given state: the result and the *)
(* map, coordinate, energy, backpack and score it leaves behind.           *)

Outcome(status, value, m, coord, level, bp, sc) ==
    [status |-> status, value |-> value, m |-> m, coord |-> coord,
     level |-> level, bp |-> bp, sc |-> sc]

SetContent(m, t, c) == [m EXCEPT ![t[1] + 1][t[2] + 1].content = c]

\* a tile type update that is never written back to the map
SetTileType_dropped(m, t, tile_type) == m

SetTileType(m, t, tile_type) == [m EXCEPT ![t[1] + 1][t[2] + 1].tile_type = tile_type]

WaterTiles == {"ShallowWater", "DeepWater"}

\* draws of rng.gen_range(0..water.max) explored by the model
WaterDraws == {0, 1, ContentProps("Water").max - 1}

\* draws of rng.gen_range(1..rock.max): all of them
RockDraws == 1..(ContentProps("Rock").max - 1)

\* go moving the robot before the energy is consumed
go_moving_first(m, coord, level, bp, sc, dim, w, h, direction) ==
    LET allowed == go_allowed(m, coord, dim, direction)
        t == get_coords_row_col(coord, direction)
        target_tile == TileAt(m, t[1], t[2])
        current_tile == TileAt(m, coord[1], coord[2])
        base_cost == calculate_cost_go_with_environment(
                         TileTypeProps(target_tile.tile_type).cost, w, h,
                         target_tile.tile_type)
        elevation_cost ==
            IF target_tile.elevation > current_tile.elevation
            THEN (target_tile.elevation - current_tile.elevation)
                 * (target_tile.elevation - current_tile.elevation)
            ELSE 0
        m1 == IF target_tile.tile_type = "Teleport(false)"
              THEN SetTileType(m, t, "Teleport(true)") ELSE m
        consumed == consume_energy(level, base_cost + elevation_cost)
    IN  IF allowed # "Ok" THEN {Outcome(allowed, 0, m, coord, level, bp, sc)}
        ELSE IF ~consumed.ok THEN {Outcome("NotEnoughEnergy", 0, m1, t, level, bp, sc)}
        ELSE {Outcome("Ok", 0, m1, t, consumed.level, bp, sc)}

\* go charging the squared elevation difference downhill as well
go_charging_descent(m, coord, level, bp, sc, dim, w, h, direction) ==
    LET allowed == go_allowed(m, coord, dim, direction)
        t == get_coords_row_col(coord, direction)
        target_tile == TileAt(m, t[1], t[2])
        current_tile == TileAt(m, coord[1], coord[2])
        base_cost == calculate_cost_go_with_environment(
                         TileTypeProps(target_tile.tile_type).cost, w, h,
                         target_tile.tile_type)
        elevation_cost ==
            (target_tile.elevation - current_tile.elevation)
            * (target_tile.elevation - current_tile.elevation)
        m1 == IF target_tile.tile_type = "Teleport(false)"
              THEN SetTileType(m, t, "Teleport(true)") ELSE m
        consumed == consume_energy(level, base_cost + elevation_cost)
    IN  IF allowed # "Ok" THEN {Outcome(allowed, 0, m, coord, level, bp, sc)}
        ELSE IF ~consumed.ok THEN {Outcome("NotEnoughEnergy", 0, m1, coord, level, bp, sc)}
        ELSE {Outcome("Ok", 0, m1, t, consumed.level, bp, sc)}

go(m, coord, level, bp, sc, dim, w, h, direction) ==
    LET allowed == go_allowed(m, coord, dim, direction)
        t == get_coords_row_col(coord, direction)
        target_tile == TileAt(m, t[1], t[2])
        current_tile == TileAt(m, coord[1], coord[2])
        base_cost == calculate_cost_go_with_environment(
                         TileTypeProps(target_tile.tile_type).cost, w, h,
                         target_tile.tile_type)
        elevation_cost ==
            IF target_tile.elevation > current_tile.elevation
            THEN (target_tile.elevation - current_tile.elevation)
                 * (target_tile.elevation - current_tile.elevation)
            ELSE 0
        m1 == IF target_tile.tile_type = "Teleport(false)"
              THEN SetTileType(m, t, "Teleport(true)") ELSE m
        consumed == consume_energy(level, base_cost + elevation_cost)
    IN  IF allowed # "Ok" THEN {Outcome(allowed, 0, m, coord, level, bp, sc)}
        ELSE IF ~consumed.ok THEN {Outcome("NotEnoughEnergy", 0, m1, coord, level, bp, sc)}
        ELSE {Outcome("Ok", 0, m1, t, consumed.level, bp, sc)}

\* teleport charging the energy before the target is validated
teleport_charging(m, coord, level, bp, sc, dim, target) ==
    LET allowed == teleport_allowed(m, coord, dim, target)
        consumed == consume_energy(level, TELEPORT_COST)
    IN  IF ~consumed.ok THEN {Outcome("NotEnoughEnergy", 0, m, coord, level, bp, sc)}
        ELSE IF allowed # "Ok"
        THEN {Outcome(allowed, 0, m, coord, consumed.level, bp, sc)}
        ELSE {Outcome("Ok", 0, m, target, consumed.level, bp, sc)}

teleport(m, coord, level, bp, sc, dim, target) ==
    LET allowed == teleport_allowed(m, coord, dim, target)
        consumed == consume_energy(level, TELEPORT_COST)
    IN  IF allowed # "Ok" THEN {Outcome(allowed, 0, m, coord, level, bp, sc)}
        ELSE IF ~consumed.ok THEN {Outcome("NotEnoughEnergy", 0, m, coord, level, bp, sc)}
        ELSE {Outcome("Ok", 0, m, target, consumed.level, bp, sc)}

\* destroy charging the energy and clearing the tile before the backpack
\* has accepted the content
destroy_draw_charging(m, coord, level, bp, sc, dim, direction, draw) ==
    IF ~in_bounds(coord, dim, direction)
    THEN Outcome("OutOfBounds", 0, m, coord, level, bp, sc)
    ELSE
    LET t == get_coords_row_col(coord, direction)
        tiletype == TileAt(m, t[1], t[2]).tile_type
        harvest == tiletype \in WaterTiles /\ TileAt(m, t[1], t[2]).content = NoContent
        content == IF harvest THEN Content("Water", 0, 0) ELSE TileAt(m, t[1], t[2]).content
        cost == ContentProps(content.kind).cost
        value1 == IF harvest THEN draw ELSE 0
        value2 == IF content = Fire THEN ContentProps("Fire").max ELSE value1
        destroyable == can_destroy(m, dim, t[1], t[2])
    IN  IF tiletype \notin WaterTiles /\ destroyable # "Ok"
        THEN Outcome(destroyable, 0, m, coord, level, bp, sc)
        ELSE IF value2 = 0 /\ ~has_value(content)
        THEN Outcome("Panic", 0, m, coord, level, bp, sc)
        ELSE
        LET value == IF value2 = 0 THEN get_value(content) ELSE value2
            added == add_to_backpack(bp, content.kind, value)
            consumed == consume_energy(level, cost)
        IN  IF ~consumed.ok
            THEN Outcome("NotEnoughEnergy", 0, m, coord, level, bp, sc)
            ELSE IF ~added.ok
            THEN Outcome("NotEnoughSpace", added.amt, SetContent(m, t, NoContent), coord,
                         consumed.level, added.bp, sc)
            ELSE Outcome("Ok", added.amt, SetContent(m, t, NoContent), coord,
                         consumed.level, added.bp,
                         add_score_destroy(sc, content.kind, added.amt))

\* destroy for one draw of the random water amount
destroy_draw(m, coord, level, bp, sc, dim, direction, draw) ==
    IF ~in_bounds(coord, dim, direction)
    THEN Outcome("OutOfBounds", 0, m, coord, level, bp, sc)
    ELSE
    LET t == get_coords_row_col(coord, direction)
        tiletype == TileAt(m, t[1], t[2]).tile_type
        harvest == tiletype \in WaterTiles /\ TileAt(m, t[1], t[2]).content = NoContent
        content == IF harvest THEN Content("Water", 0, 0) ELSE TileAt(m, t[1], t[2]).content
        cost == ContentProps(content.kind).cost
        value1 == IF harvest THEN draw ELSE 0
        value2 == IF content = Fire THEN ContentProps("Fire").max ELSE value1
        destroyable == can_destroy(m, dim, t[1], t[2])
    IN  IF tiletype \notin WaterTiles /\ destroyable # "Ok"
        THEN Outcome(destroyable, 0, m, coord, level, bp, sc)
        ELSE IF value2 = 0 /\ ~has_value(content)
        THEN Outcome("Panic", 0, m, coord, level, bp, sc)
        ELSE
        LET value == IF value2 = 0 THEN get_value(content) ELSE value2
            added == add_to_backpack(bp, content.kind, value)
        IN  IF ~has_enough_energy(level, cost)
            THEN Outcome("NotEnoughEnergy", 0, m, coord, level, bp, sc)
            ELSE IF ~added.ok
            THEN Outcome("NotEnoughSpace", added.amt, m, coord, level, added.bp, sc)
            ELSE Outcome("Ok", added.amt, SetContent(m, t, NoContent), coord,
                         consume_energy(level, cost).level, added.bp,
                         add_score_destroy(sc, content.kind, added.amt))

destroy(m, coord, level, bp, sc, dim, direction) ==
    {destroy_draw(m, coord, level, bp, sc, dim, direction, draw) : draw \in WaterDraws}

\* the recipes of craft, tried in table order from position i
RECURSIVE craft_from(_, _, _, _, _, _, _)
craft_from(m, coord, level, bp, sc, kind, i) ==
    LET recipes == ContentProps(kind).craft
    IN  IF i > Len(recipes) THEN Outcome("NotCraftable", 0, m, coord, level, bp, sc)
        ELSE
        LET content_n == recipes[i][1]
            quantity == recipes[i][2]
            removed == remove_from_backpack(bp, content_n, quantity)
            restored == IF removed.amt # quantity
                        THEN add_to_backpack(removed.bp, content_n, removed.amt)
                        ELSE [bp |-> removed.bp, ok |-> TRUE, amt |-> 0]
            cost == ContentProps(kind).cost
            consumed == consume_energy(level, cost)
            crafted == add_to_backpack(restored.bp, kind, 1)
        IN  IF ~removed.ok THEN craft_from(m, coord, level, bp, sc, kind, i + 1)
            ELSE IF ~restored.ok
            THEN Outcome("NotEnoughSpace", restored.amt, m, coord, level, restored.bp, sc)
            ELSE IF ~consumed.ok
            THEN Outcome("NotEnoughEnergy", 0, m, coord, level, restored.bp, sc)
            ELSE IF ~crafted.ok
            THEN Outcome("NotEnoughSpace", crafted.amt, m, coord, consumed.level,
                         crafted.bp, sc)
            ELSE Outcome("Ok", 0, m, coord, consumed.level, crafted.bp, sc)

craft(m, coord, level, bp, sc, kind) ==
    IF kind = "None" THEN {Outcome("NotCraftable", 0, m, coord, level, bp, sc)}
    ELSE {craft_from(m, coord, level, bp, sc, kind, 1)}

-----------------------------------------------------------------------------
(* interface/mod.rs: the calls that look at the map.  They leave the map,  *)
(* the robot's coordinate, the backpack and the score alone; an outcome    *)
(* carries the result, the energy, the discovery budget and the tiles      *)
(* returned.                                                               *)

Seen(status, value, level, budget, tiles) ==
    [status |-> status, value |-> value, level |-> level, budget |-> budget,
     tiles |-> tiles]

\* Option<Tile>
Some(tile) == <<tile>>
None == << >>

\* the coordinates of a request, each once
Requested(to_discover) == {to_discover[i] : i \in 1..Len(to_discover)}

\* discover_tiles charging the budget for the coordinates inside the map only
discover_tiles_inside(m, level, budget, to_discover) ==
    LET inside == {i \in 1..Len(to_discover) :
                      /\ to_discover[i][1] < Len(m)
                      /\ to_discover[i][2] < Len(m[to_discover[i][1] + 1])}
        energy_needed == Len(to_discover) * 3
        return_value ==
            [c \in Requested(to_discover) |->
                IF c[1] < Len(m) /\ c[2] < Len(m[c[1] + 1])
                THEN Some(TileAt(m, c[1], c[2])) ELSE None]
    IN  IF budget < Len(to_discover)
        THEN {Seen("NoMoreDiscovery", 0, level, budget, << >>)}
        ELSE IF ~has_enough_energy(level, energy_needed)
        THEN {Seen("NotEnoughEnergy", 0, level, budget, << >>)}
        ELSE {Seen("Ok", Cardinality(Requested(to_discover)),
                   consume_energy(level, energy_needed).level,
                   budget - Cardinality(inside), return_value)}

\* discover_tiles looking at the energy before the budget
discover_tiles_energy_first(m, level, budget, to_discover) ==
    LET energy_needed == Len(to_discover) * 3
        return_value ==
            [c \in Requested(to_discover) |->
                IF c[1] < Len(m) /\ c[2] < Len(m[c[1] + 1])
                THEN Some(TileAt(m, c[1], c[2])) ELSE None]
    IN  IF ~has_enough_energy(level, energy_needed)
        THEN {Seen("NotEnoughEnergy", 0, level, budget, << >>)}
        ELSE IF budget < Len(to_discover)
        THEN {Seen("NoMoreDiscovery", 0, level, budget, << >>)}
        ELSE {Seen("Ok", Cardinality(Requested(to_discover)),
                   consume_energy(level, energy_needed).level,
                   budget - Len(to_discover), return_value)}

\* the value of an Ok is the number of entries of the returned map
discover_tiles(m, level, budget, to_discover) ==
    LET energy_needed == Len(to_discover) * 3
        return_value ==
            [c \in Requested(to_discover) |->
                IF c[1] < Len(m) /\ c[2] < Len(m[c[1] + 1])
                THEN Some(TileAt(m, c[1], c[2])) ELSE None]
    IN  IF budget < Len(to_discover)
        THEN {Seen("NoMoreDiscovery", 0, level, budget, << >>)}
        ELSE IF ~has_enough_energy(level, energy_needed)
        THEN {Seen("NotEnoughEnergy", 0, level, budget, << >>)}
        ELSE {Seen("Ok", Cardinality(Requested(to_discover)),
                   consume_energy(level, energy_needed).level,
                   budget - Len(to_discover), return_value)}

\* check_price_view charging for a single tile too
check_price_view_flat(level, tile_to_see) ==
    LET energy_needed == tile_to_see * 3
    IN  [ok |-> has_enough_energy(level, energy_needed), energy_needed |-> energy_needed]

\* check_price_view: [ok: Ok or Err(NotEnoughEnergy), energy_needed]
check_price_view(level, tile_to_see) ==
    LET energy_needed == IF tile_to_see <= 1 THEN 0 ELSE tile_to_see * 3
    IN  [ok |-> has_enough_energy(level, energy_needed), energy_needed |-> energy_needed]

\* the tiles left to the edge of the map in a direction
tiles_to_edge(coord, dim, direction) ==
    CASE direction = "Up"    -> coord[1]
      [] direction = "Down"  -> dim - coord[1] - 1
      [] direction = "Left"  -> coord[2]
      [] direction = "Right" -> dim - coord[2] - 1

\* the matrix one_direction_view pushes: for Up and Down one row per step
\* away from the robot, for Left and Right one row per map row of the strip
view_matrix(m, coord, dim, direction, tile_to_see) ==
    LET across == IF direction \in {"Up", "Down"} THEN coord[2] ELSE coord[1]
        start_index == IF across = 0 THEN 0 ELSE -1
        ending_index == IF across = dim - 1 THEN 0 ELSE 1
        width == ending_index - start_index + 1
    IN  CASE direction = "Up" ->
               [i \in 1..tile_to_see |->
                   [k \in 1..width |->
                       TileAt(m, coord[1] - i, coord[2] + start_index + k - 1)]]
          [] direction = "Down" ->
               [i \in 1..tile_to_see |->
                   [k \in 1..width |->
                       TileAt(m, coord[1] + i, coord[2] + start_index + k - 1)]]
          [] direction = "Left" ->
               [k \in 1..width |->
                   [j \in 1..tile_to_see |->
                       TileAt(m, coord[1] + start_index + k - 1, coord[2] - j)]]
          [] direction = "Right" ->
               [k \in 1..width |->
                   [j \in 1..tile_to_see |->
                       TileAt(m, coord[1] + start_index + k - 1, coord[2] + j)]]

\* the value of an Ok is the number of tiles seen in the direction
one_direction_view(m, coord, level, budget, dim, direction, distance) ==
    LET tile_to_see == Min(distance, tiles_to_edge(coord, dim, direction))
        price == check_price_view(level, tile_to_see)
    IN  IF tile_to_see = 0 THEN {Seen("Ok", 0, level, budget, << >>)}
        ELSE IF ~price.ok THEN {Seen("NotEnoughEnergy", 0, level, budget, << >>)}
        ELSE {Seen("Ok", tile_to_see, consume_energy(level, price.energy_needed).level,
                   budget, view_matrix(m, coord, dim, direction, tile_to_see))}

\* Event: its name and what it carries
Event(name, value) == [name |-> name, value |-> value]

\* the coordinates of the tiles view_matrix holds, which one_direction_view
\* adds to the plot
view_coords(coord, dim, direction, tile_to_see) ==
    LET across == IF direction \in {"Up", "Down"} THEN coord[2] ELSE coord[1]
        start_index == IF across = 0 THEN 0 ELSE -1
        ending_index == IF across = dim - 1 THEN 0 ELSE 1
        strip == start_index..ending_index
    IN  CASE direction = "Up" ->
               {<<coord[1] - i, coord[2] + j>> : i \in 1..tile_to_see, j \in strip}
          [] direction = "Down" ->
               {<<coord[1] + i, coord[2] + j>> : i \in 1..tile_to_see, j \in strip}
          [] direction = "Left" ->
               {<<coord[1] + i, coord[2] - j>> : i \in strip, j \in 1..tile_to_see}
          [] direction = "Right" ->
               {<<coord[1] + i, coord[2] + j>> : i \in strip, j \in 1..tile_to_see}

\* robot_view: the cells of the 3x3 area that fall outside the map (tmp)
masked(coord, dim, i, j) ==
    \/ coord[1] = 0 /\ i = 0
    \/ coord[2] = 0 /\ j = 0
    \/ coord[1] = dim - 1 /\ i = 2
    \/ coord[2] = dim - 1 /\ j = 2

\* robot_view: the 3x3 area around the robot, None outside the map
robot_view(m, coord, dim) ==
    [i \in 1..3 |->
        [j \in 1..3 |->
            IF masked(coord, dim, i - 1, j - 1) THEN None
            ELSE Some(TileAt(m, coord[1] + i - 2, coord[2] + j - 2))]]

\* the coordinates robot_view adds to the plot
robot_view_coords(coord, dim) ==
    {<<coord[1] + i - 1, coord[2] + j - 1>> :
        <<i, j>> \in {c \in (0..2) \X (0..2) : ~masked(coord, dim, c[1], c[2])}}

\* robot_map: Some(tile) at the coordinates of the plot, None elsewhere;
\* a coordinate of the plot outside the map is an index out of bounds
robot_map(m, dim, coords) ==
    IF \E c \in coords : c[1] >= dim \/ c[2] >= dim
    THEN [panic |-> TRUE, out |-> << >>]
    ELSE [panic |-> FALSE,
          out |-> [r \in 1..dim |->
                     [c \in 1..dim |->
                         IF <<r - 1, c - 1>> \in coords
                         THEN Some(TileAt(m, r - 1, c - 1)) ELSE None]]]

\* the calls of the engine, with their arguments
Call(name, arg, quantity) == [name |-> name, arg |-> arg, quantity |-> quantity]

\* the coordinates a call adds to the plot: go and teleport return the
\* robot_view of where the robot arrived, discover_tiles the requested tiles
\* inside the map, one_direction_view the tiles of its matrix
plotted(call, status, m, coord, coord_after, dim) ==
    IF status # "Ok" THEN {}
    ELSE CASE call.name \in {"go", "teleport", "robot_view"} ->
                robot_view_coords(coord_after, dim)
           [] call.name = "discover_tiles" ->
                {c \in Requested(call.arg) : c[1] < Len(m) /\ c[2] < Len(m[c[1] + 1])}
           [] call.name = "one_direction_view" ->
                view_coords(coord, dim, call.arg,
                            Min(call.quantity, tiles_to_edge(coord, dim, call.arg)))
           [] OTHER -> {}

\* go announcing the move before the energy it cost
emitted_moving_first(call, status, value, spent, m, m_after, coord_after) ==
    IF status # "Ok" THEN << >>
    ELSE CASE call.name = "go" ->
                <<Event("Moved", <<TileAt(m_after, coord_after[1], coord_after[2]),
                                   coord_after>>),
                  Event("EnergyConsumed", spent)>>
           [] OTHER -> << >>

\* the energy, movement and tile events a call hands to handle_event, in
\* order (the backpack events are not recorded): spent is the energy the
\* call consumed; the market arm of put consumes none
emitted(call, status, value, spent, m, m_after, coord_after) ==
    IF status # "Ok" THEN << >>
    ELSE CASE call.name = "go" ->
                <<Event("EnergyConsumed", spent),
                  Event("Moved", <<TileAt(m_after, coord_after[1], coord_after[2]),
                                   coord_after>>)>>
           [] call.name \in {"teleport", "craft", "discover_tiles"} ->
                <<Event("EnergyConsumed", spent)>>
           [] call.name = "one_direction_view" ->
                IF value = 0 THEN << >> ELSE <<Event("EnergyConsumed", spent)>>
           [] call.name = "destroy" ->
                <<Event("EnergyConsumed", spent),
                  Event("TileContentUpdated",
                        <<TileAt(m_after, call.arg[1], call.arg[2]), call.arg>>)>>
           [] call.name = "put" ->
                (IF TileAt(m, call.arg[1], call.arg[2]).content.kind = "Market"
                 THEN << >> ELSE <<Event("EnergyConsumed", spent)>>)
                \o <<Event("TileContentUpdated",
                           <<TileAt(m_after, call.arg[1], call.arg[2]), call.arg>>)>>
           [] OTHER -> << >>

-----------------------------------------------------------------------------
(* interface/mod.rs: put, one operator per arm of its match *)

\* the receptacle arms filling the range by the requested quantity instead
\* of the quantity removed
put_store_space_overfill(m, coord, level, bp, sc, t, range, kind_in, quantity, available_space) ==
    LET stored == can_store(bp, level, available_space, kind_in, range.kind, quantity)
        removed == remove_from_backpack(bp, kind_in, stored.quantity_to_remove)
        consumed == consume_energy(level, stored.cost)
        m1 == SetContent(m, t, Content(range.kind, range.n + quantity, range.end))
    IN  IF ~stored.ok THEN Outcome("NotEnoughEnergy", 0, m, coord, level, bp, sc)
        ELSE IF ~removed.ok THEN Outcome("NoContent", 0, m, coord, level, bp, sc)
        ELSE IF ~consumed.ok
        THEN Outcome("NotEnoughEnergy", 0, m1, coord, level, removed.bp, sc)
        ELSE Outcome("Ok", removed.amt, m1, coord, consumed.level, removed.bp,
                     add_score_put(sc, range.kind, removed.amt))

\* arms (_, Bank, Coin), (_, Bin, Garbage), (_, Crate, Tree); a range whose
\* start exceeds its end makes end - start overflow: the call panics or wraps
put_store_space(m, coord, level, bp, sc, t, range, kind_in, quantity, available_space) ==
    LET stored == can_store(bp, level, available_space, kind_in, range.kind, quantity)
        removed == remove_from_backpack(bp, kind_in, stored.quantity_to_remove)
        consumed == consume_energy(level, stored.cost)
        m1 == SetContent(m, t, Content(range.kind, range.n + removed.amt, range.end))
    IN  IF ~stored.ok THEN Outcome("NotEnoughEnergy", 0, m, coord, level, bp, sc)
        ELSE IF ~removed.ok THEN Outcome("NoContent", 0, m, coord, level, bp, sc)
        ELSE IF ~consumed.ok
        THEN Outcome("NotEnoughEnergy", 0, m1, coord, level, removed.bp, sc)
        ELSE Outcome("Ok", removed.amt, m1, coord, consumed.level, removed.bp,
                     add_score_put(sc, range.kind, removed.amt))

put_store(m, coord, level, bp, sc, t, range, kind_in, quantity) ==
    IF range.end >= range.n
    THEN {put_store_space(m, coord, level, bp, sc, t, range, kind_in, quantity,
                          range.end - range.n)}
    ELSE {Outcome("Panic", 0, m, coord, level, bp, sc),
          put_store_space(m, coord, level, bp, sc, t, range, kind_in, quantity,
                          BACKPACK_SIZE)}

\* the shared tail with the removal made before the energy check
put_spend_unchecked(m, coord, level, bp, sc, kind_in, units, cost, m1, sc1) ==
    LET removed == remove_from_backpack(bp, kind_in, units)
    IN  IF ~removed.ok THEN Outcome("NoContent", 0, m, coord, level, bp, sc)
        ELSE IF ~has_enough_energy(level, cost)
        THEN Outcome("NotEnoughEnergy", 0, m, coord, level, removed.bp, sc)
        ELSE Outcome("Ok", removed.amt, m1, coord, consume_energy(level, cost).level,
                     removed.bp, sc1)

\* the tail shared by the arms that spend a fixed or computed number of units:
\* energy check, removal from the backpack, energy consumption, tile update
put_spend(m, coord, level, bp, sc, kind_in, units, cost, m1, sc1) ==
    LET removed == remove_from_backpack(bp, kind_in, units)
    IN  IF ~has_enough_energy(level, cost)
        THEN Outcome("NotEnoughEnergy", 0, m, coord, level, bp, sc)
        ELSE IF ~removed.ok THEN Outcome("NoContent", 0, m, coord, level, bp, sc)
        ELSE Outcome("Ok", removed.amt, m1, coord, consume_energy(level, cost).level,
                     removed.bp, sc1)

\* arms (_, Tree, Fire) and (_, None, Fire)
put_fire(m, coord, level, bp, sc, t, tile_type) ==
    IF ~can_hold(tile_type, Fire)
    THEN {Outcome("WrongContentUsed", 0, m, coord, level, bp, sc)}
    ELSE {put_spend(m, coord, level, bp, sc, "Fire", 1, ContentProps("Fire").cost,
                    SetContent(m, t, Fire), sc)}

\* coins paid by the market for one unit
market_coins(kind) ==
    CASE kind = "Rock" -> 1
      [] kind = "Tree" -> 2
      [] kind = "Fish" -> 5
      [] OTHER -> 0

\* arm (_, Market, to_sell)
put_market(m, coord, level, bp, sc, t, remaining_op, kind_in, quantity) ==
    LET m1 == SetContent(m, t, Content("Market", remaining_op - 1, 0))
        sold == remove_from_backpack(bp, kind_in, quantity)
        coins == market_coins(kind_in)
        paid == add_to_backpack(sold.bp, "Coin", sold.amt * coins)
    IN  IF remaining_op < 1
        THEN {Outcome("OperationNotAllowed", 0, m, coord, level, bp, sc)}
        ELSE IF ~sold.ok THEN {Outcome("NoContent", 0, m1, coord, level, bp, sc)}
        ELSE IF coins = 0
        THEN {Outcome("WrongContentUsed", 0, m1, coord, level, sold.bp, sc)}
        ELSE IF ~paid.ok
        THEN {Outcome("NotEnoughSpace", paid.amt, m1, coord, level, paid.bp, sc)}
        ELSE {Outcome("Ok", paid.amt, m1, coord, level, paid.bp, sc)}

\* arms (Grass | Hill | Sand | Snow, _, Rock), (ShallowWater, _, Rock),
\* (DeepWater, _, Rock) and (Lava, _, Rock): rocks needed and cost multiplier
street_rocks(tile_type) ==
    CASE tile_type = "ShallowWater" -> 2
      [] tile_type \in {"DeepWater", "Lava"} -> 3
      [] OTHER -> 1

street_multiplier(tile_type) ==
    CASE tile_type = "DeepWater" -> 2
      [] tile_type = "Lava" -> 3
      [] OTHER -> 1

put_street(m, coord, level, bp, sc, t, tile_type, content, amount) ==
    LET rocks == street_rocks(tile_type)
        cost == ContentProps("Rock").cost * rocks * street_multiplier(tile_type)
    IN  IF tile_type # "Lava" /\ ~can_hold("Street", content)
        THEN {Outcome("MustDestroyContentFirst", 0, m, coord, level, bp, sc)}
        ELSE IF rocks > 1 /\ amount < rocks
        THEN {Outcome("NotEnoughContentProvided", 0, m, coord, level, bp, sc)}
        ELSE {put_spend(m, coord, level, bp, sc, "Rock", rocks, cost,
                        SetTileType(m, t, "Street"), sc)}

\* arms (_, None, Rock) and (_, None, _)
put_on_empty(m, coord, level, bp, sc, t, tile_type, content_in, amount) ==
    IF ~can_hold(tile_type, content_in)
    THEN {Outcome("WrongContentUsed", 0, m, coord, level, bp, sc)}
    ELSE {put_spend(m, coord, level, bp, sc, content_in.kind, amount,
                    ContentProps(content_in.kind).cost * amount,
                    SetContent(m, t, to_value(content_in, amount)), sc)}

\* arm (Mountain, _, None) for one draw of the rock yield
put_mountain_draw(m, coord, level, bp, sc, t, amount_to_give) ==
    LET cost == ContentProps("Rock").cost * amount_to_give * 4
        added == add_to_backpack(bp, "Rock", amount_to_give)
    IN  IF ~has_enough_energy(level, cost)
        THEN Outcome("NotEnoughEnergy", 0, m, coord, level, bp, sc)
        ELSE IF ~added.ok
        THEN Outcome("NotEnoughSpace", added.amt, m, coord, level, added.bp, sc)
        ELSE Outcome("Ok", added.amt, SetTileType(m, t, "Street"), coord,
                     consume_energy(level, cost).level, added.bp, sc)

put_mountain(m, coord, level, bp, sc, t) ==
    {put_mountain_draw(m, coord, level, bp, sc, t, draw) : draw \in RockDraws}

\* arm (_, Fire, Water)
put_extinguish(m, coord, level, bp, sc, t) ==
    LET removed == remove_from_backpack(bp, "Water", 1)
    IN  {put_spend(m, coord, level, bp, sc, "Water", 1, ContentProps("Water").cost,
                   SetContent(m, t, NoContent), add_score_put(sc, "Fire", removed.amt))}

\* arm (_, Fire, _)
put_on_fire(m, coord, level, bp, sc, kind_in, amount) ==
    {put_spend(m, coord, level, bp, sc, kind_in, amount,
               ContentProps("Water").cost * amount, m, sc)}

\* arm (_, a, b) for a given room left on the tile
put_same_room(m, coord, level, bp, sc, t, a, content_in, amount0, room) ==
    LET amount == Min(amount0, room)
    IN  IF amount = 0 THEN Outcome("OperationNotAllowed", 0, m, coord, level, bp, sc)
        ELSE put_spend(m, coord, level, bp, sc, content_in.kind, amount,
                       ContentProps(content_in.kind).cost * amount,
                       SetContent(m, t, to_value(content_in, amount + get_value(a))), sc)

\* arm (_, a, b); a tile amount above the kind's max makes max - value
\* overflow: the call panics or wraps
put_same(m, coord, level, bp, sc, t, a, content_in, amount) ==
    IF to_default(a) # to_default(content_in)
    THEN {Outcome("WrongContentUsed", 0, m, coord, level, bp, sc)}
    ELSE IF ~has_value(a)
    THEN {Outcome("OperationNotAllowed", 0, m, coord, level, bp, sc)}
    ELSE IF ContentProps(a.kind).max >= get_value(a)
    THEN {put_same_room(m, coord, level, bp, sc, t, a, content_in, amount,
                        ContentProps(a.kind).max - get_value(a))}
    ELSE {Outcome("Panic", 0, m, coord, level, bp, sc),
          put_same_room(m, coord, level, bp, sc, t, a, content_in, amount, amount)}

put(m, coord, level, bp, sc, dim, content_in, quantity, direction) ==
    IF ~in_bounds(coord, dim, direction)
    THEN {Outcome("OutOfBounds", 0, m, coord, level, bp, sc)}
    ELSE
    LET t == get_coords_row_col(coord, direction)
        tile_type == TileAt(m, t[1], t[2]).tile_type
        content == TileAt(m, t[1], t[2]).content
        kind_in == content_in.kind
        amount == Min(Min(quantity, bp[kind_in]), ContentProps(kind_in).max)
    IN  IF kind_in = "None" /\ tile_type # "Mountain"
        THEN {Outcome("WrongContentUsed", 0, m, coord, level, bp, sc)}
        ELSE IF \/ content.kind = "Bank" /\ kind_in = "Coin"
                \/ content.kind = "Bin" /\ kind_in = "Garbage"
                \/ content.kind = "Crate" /\ kind_in = "Tree"
        THEN put_store(m, coord, level, bp, sc, t, content, kind_in, quantity)
        ELSE IF content.kind \in {"Tree", "None"} /\ kind_in = "Fire"
        THEN put_fire(m, coord, level, bp, sc, t, tile_type)
        ELSE IF content.kind = "Market"
        THEN put_market(m, coord, level, bp, sc, t, content.n, kind_in, quantity)
        ELSE IF /\ tile_type \in {"Grass", "Hill", "Sand", "Snow", "ShallowWater",
                                  "DeepWater", "Lava"}
                /\ kind_in = "Rock"
        THEN put_street(m, coord, level, bp, sc, t, tile_type, content, amount)
        ELSE IF content.kind = "None" /\ kind_in = "Rock"
        THEN put_on_empty(m, coord, level, bp, sc, t, tile_type, content_in, amount)
        ELSE IF tile_type = "Mountain" /\ kind_in = "None"
        THEN put_mountain(m, coord, level, bp, sc, t)
        ELSE IF content.kind = "Fire" /\ kind_in = "Water"
        THEN put_extinguish(m, coord, level, bp, sc, t)
        ELSE IF content.kind = "Fire"
        THEN put_on_fire(m, coord, level, bp, sc, kind_in, amount)
        ELSE IF content.kind = "None"
        THEN put_on_empty(m, coord, level, bp, sc, t, tile_type, content_in, amount)
        ELSE put_same(m, coord, level, bp, sc, t, content, content_in, amount)

-----------------------------------------------------------------------------
(* Generator outputs and robots handed to Runner::new *)

Rock(n) == Content("Rock", n, 0)
Tree(n) == Content("Tree", n, 0)
Garbage(n) == Content("Garbage", n, 0)
Coin(n) == Content("Coin", n, 0)
Water(n) == Content("Water", n, 0)
Fish(n) == Content("Fish", n, 0)
Bush(n) == Content("Bush", n, 0)
Market(n) == Content("Market", n, 0)
Bin(start, end) == Content("Bin", start, end)
Crate(start, end) == Content("Crate", start, end)
Bank(start, end) == Content("Bank", start, end)

\* receptacles, a market and two neighbouring teleports
WorldReceptacles ==
    << << Tile("Grass", NoContent, 0), Tile("Grass", Bank(0, 12), 0),
          Tile("Teleport(false)", NoContent, 0) >>,
       << Tile("Grass", Bin(1, 3), 0), Tile("Grass", NoContent, 0),
          Tile("Teleport(false)", Coin(1), 0) >>,
       << Tile("Street", NoContent, 0), Tile("Street", Market(1), 0),
          Tile("Hill", Crate(0, 4), 1) >> >>

\* terrains that can be turned into street
WorldTerrains ==
    << << Tile("Sand", Coin(0), 0), Tile("Mountain", Tree(1), 2),
          Tile("Snow", Bush(2), 0) >>,
       << Tile("Lava", NoContent, 0), Tile("Street", NoContent, 0),
          Tile("ShallowWater", NoContent, 0) >>,
       << Tile("Grass", Rock(0), 0), Tile("DeepWater", Fish(2), 0),
          Tile("Wall", NoContent, 0) >> >>

\* contents to destroy
WorldContents ==
    << << Tile("Grass", NoContent, 0), Tile("Grass", Tree(3), 0),
          Tile("Mountain", NoContent, 2) >>,
       << Tile("Hill", Fire, 1), Tile("Grass", NoContent, 0),
          Tile("Grass", Rock(0), 0) >>,
       << Tile("Grass", Garbage(2), 0), Tile("ShallowWater", Water(4), 0),
          Tile("Grass", Rock(4), 0) >> >>

\* a tree count above the tree's max and a scarecrow standing in water
WorldOverMax ==
    << << Tile("Grass", NoContent, 0), Tile("Hill", Tree(6), 1) >>,
       << Tile("ShallowWater", Content("Scarecrow", 0, 0), 0),
          Tile("Grass", Garbage(2), 0) >> >>

\* worlds check_world rejects
WorldNotSquare ==
    << << Tile("Grass", NoContent, 0), Tile("Grass", NoContent, 0) >>,
       << Tile("Grass", NoContent, 0) >> >>

WorldTeleportOn ==
    << << Tile("Grass", NoContent, 0), Tile("Teleport(true)", NoContent, 0) >>,
       << Tile("Grass", NoContent, 0), Tile("Grass", NoContent, 0) >> >>

WorldNotAllowed ==
    << << Tile("Grass", NoContent, 0), Tile("Street", Tree(1), 0) >>,
       << Tile("Grass", NoContent, 0), Tile("Grass", NoContent, 0) >> >>

\* a teleport two levels above the tile next to it
WorldTeleportHigh ==
    << << Tile("Grass", NoContent, 0), Tile("Teleport(false)", NoContent, 2) >>,
       << Tile("Grass", NoContent, 0), Tile("Teleport(false)", NoContent, 0) >> >>

\* gen(): map, spawn point and the environmental conditions, made by
\* EnvironmentalConditions::new from a forecast, the minutes of a tick and
\* the starting hour
Gen(world, spawn, forecast, minutes, starting_hour) ==
    [map |-> world, spawn |-> spawn, weather_forecast |-> forecast,
     time_progression_minutes |-> minutes, hour |-> starting_hour]

Generated ==
    {Gen(w, sp, <<"Sunny">>, 30, 12) :
        w \in {WorldReceptacles, WorldTerrains, WorldContents},
        sp \in {<<1, 1>>, <<0, 2>>}}
    \cup {Gen(WorldContents, <<1, 1>>, <<"Rainy", "Sunny">>, 30, 22),
          Gen(WorldContents, <<3, 0>>, <<"Sunny">>, 30, 12),
          Gen(WorldOverMax, <<0, 0>>, <<"Sunny">>, 30, 12),
          Gen(WorldTeleportHigh, <<0, 0>>, <<"Sunny">>, 30, 12),
          Gen(WorldNotSquare, <<0, 0>>, <<"Sunny">>, 30, 12),
          Gen(WorldTeleportOn, <<0, 0>>, <<"Sunny">>, 30, 12),
          Gen(WorldNotAllowed, <<0, 0>>, <<"Sunny">>, 30, 12)}

Pack(rock, tree, garbage, fire, coin, water, fish) ==
    [BackPack_new EXCEPT !["Rock"] = rock, !["Tree"] = tree, !["Garbage"] = garbage,
                         !["Fire"] = fire, !["Coin"] = coin, !["Water"] = water,
                         !["Fish"] = fish]

\* robots: energy and backpack as play can have left them
Robots ==
    {[energy |-> Energy_new(MAX_ENERGY_LEVEL), backpack |-> BackPack_new],
     [energy |-> Energy_new(MAX_ENERGY_LEVEL), backpack |-> Pack(4, 5, 0, 0, 9, 0, 2)],
     [energy |-> Energy_new(MAX_ENERGY_LEVEL), backpack |-> Pack(1, 0, 3, 0, 15, 0, 0)],
     [energy |-> Energy_new(2), backpack |-> Pack(3, 2, 5, 1, 0, 1, 0)]}

-----------------------------------------------------------------------------
(* The state machine *)

Result(op, status, value) == [op |-> op, status |-> status, value |-> value]

\* nothing seen yet, no runner built
BlankDiscovery ==
    /\ plot = {}
    /\ viewed = {}
    /\ worlds = 0

\* the pathfinding tools not in use
BlankTools ==
    /\ graph = << >>
    /\ path_start = 0
    /\ target_nodes = << >>
    /\ final_path = << >>
    /\ shortest_distances = << >>
    /\ predecessors = << >>
    /\ visited = << >>
    /\ heap = {}
    /\ start0 = 0
    /\ targets0 = << >>

\* no world yet: the environmental conditions, the robot and the history
\* at their blank values
Blank ==
    /\ map = << >>
    /\ dimension = 0
    /\ weather_forecast = <<"Sunny">>
    /\ time_progression_minutes = 0
    /\ hour = 0
    /\ minute = 0
    /\ days = 0
    /\ forecast0 = <<"Sunny">>
    /\ discoverable = 0
    /\ coordinate = <<0, 0>>
    /\ energy_level = 0
    /\ contents = BackPack_new
    /\ score = 0
    /\ returned = << >>
    /\ events = << >>
    /\ steps = 0
    /\ ticks = 0
    /\ BlankDiscovery
    /\ BlankTools

Init ==
    /\ phase = "new"
    /\ res = Result("none", "Ok", 0)
    /\ Blank

\* world/mod.rs World::new: the discovery budget of a map of the given side
World_new_discoverable(dim) == ((dim * dim) \div 10 + 1) * 3

\* runner/mod.rs Runner::new: check_world, place the robot, activate a
\* teleport under the spawn point, build the world
Runner_new(gen, robot) ==
    LET checked == check_world(gen.map)
        inside == /\ gen.spawn[1] < Len(gen.map)
                  /\ gen.spawn[2] < Len(gen.map[gen.spawn[1] + 1])
    IN  /\ phase = "new"
        /\ res' = Result("new",
                         IF checked # "Ok" THEN checked
                         ELSE IF ~inside THEN "Panic" ELSE "Ok", 0)
        /\ IF checked # "Ok"
           THEN /\ phase' = "invalid"
                /\ UNCHANGED <<map, dimension, clock, discoverable, coordinate,
                               energy_level, contents, score, returned, events,
                               steps, ticks, discovery, tools>>
           ELSE IF ~inside
           THEN /\ phase' = "panicked"
                /\ UNCHANGED <<map, dimension, clock, discoverable, coordinate,
                               energy_level, contents, score, returned, events,
                               steps, ticks, discovery, tools>>
           ELSE /\ phase' = "running"
                /\ map' = IF TileAt(gen.map, gen.spawn[1], gen.spawn[2]).tile_type
                             = "Teleport(false)"
                          THEN SetTileType(gen.map, gen.spawn, "Teleport(true)")
                          ELSE gen.map
                /\ dimension' = Len(gen.map)
                /\ discoverable' = World_new_discoverable(Len(gen.map))
                /\ weather_forecast' = gen.weather_forecast
                /\ time_progression_minutes' = gen.time_progression_minutes
                /\ hour' = gen.hour
                /\ minute' = 0
                /\ forecast0' = gen.weather_forecast
                /\ coordinate' = gen.spawn
                /\ energy_level' = robot.energy
                /\ contents' = robot.backpack
                /\ score' = 0
                /\ events' = <<Event("Ready", 0)>>
                /\ viewed' = {}
                /\ worlds' = worlds + 1
                /\ UNCHANGED <<returned, steps, ticks, days, plot, tools>>

RunnerNew == \E gen \in Generated, robot \in Robots : Runner_new(gen, robot)

\* an engine call ends in one of its outcomes; a panic ends the run
Apply(op, o) ==
    /\ res' = Result(op, o.status, o.value)
    /\ phase' = IF o.status = "Panic" THEN "panicked" ELSE phase
    /\ map' = o.m
    /\ coordinate' = o.coord
    /\ energy_level' = o.level
    /\ contents' = o.bp
    /\ score' = o.sc
    /\ steps' = steps + 1
    /\ UNCHANGED <<dimension, clock, discoverable, returned, ticks, worlds, tools>>

\* what a call leaves outside the robot and the map: the events it handed
\* to the robot, and the plot
Observed(call, status, value, level, m_after, coord_after) ==
    /\ events' = emitted(call, status, value, energy_level - level, map, m_after,
                         coord_after)
    /\ plot' = plot \cup plotted(call, status, map, coordinate, coord_after, dimension)
    /\ viewed' = viewed \cup plotted(call, status, map, coordinate, coord_after,
                                      dimension)

CanCall == phase = "running" /\ steps < MaxSteps

GoCall(direction) ==
    /\ CanCall
    /\ \E o \in go(map, coordinate, energy_level, contents, score, dimension,
                   get_weather_condition(weather_forecast), hour, direction) :
           /\ Apply("go", o)
           /\ Observed(Call("go", direction, 0), o.status, o.value, o.level, o.m,
                       o.coord)

Go == \E direction \in Directions : GoCall(direction)

\* teleport targets: every coordinate of the map and one outside it
TeleportTargets ==
    {<<r, c>> : r \in 0..(dimension - 1), c \in 0..(dimension - 1)}
    \cup {<<dimension, 0>>}

TeleportCall(target) ==
    /\ CanCall
    /\ \E o \in teleport(map, coordinate, energy_level, contents, score, dimension,
                         target) :
           /\ Apply("teleport", o)
           /\ Observed(Call("teleport", target, 0), o.status, o.value, o.level, o.m,
                       o.coord)

Teleport == \E target \in TeleportTargets : TeleportCall(target)

DestroyCall(direction) ==
    /\ CanCall
    /\ \E o \in destroy(map, coordinate, energy_level, contents, score, dimension,
                        direction) :
           /\ Apply("destroy", o)
           /\ Observed(Call("destroy", get_coords_row_col(coordinate, direction), 0),
                       o.status, o.value, o.level, o.m, o.coord)

Destroy == \E direction \in Directions : DestroyCall(direction)

\* requested quantities explored by the model
PutQuantities == {0, 1, 3, 20}

PutCall(kind, quantity, direction) ==
    /\ CanCall
    /\ \E o \in put(map, coordinate, energy_level, contents, score, dimension,
                    Content(kind, 0, 0), quantity, direction) :
           /\ Apply("put", o)
           /\ Observed(Call("put", get_coords_row_col(coordinate, direction),
                            quantity),
                       o.status, o.value, o.level, o.m, o.coord)

Put ==
    \E kind \in ContentKinds, quantity \in PutQuantities, direction \in Directions :
        PutCall(kind, quantity, direction)

CraftCall(kind) ==
    /\ CanCall
    /\ \E o \in craft(map, coordinate, energy_level, contents, score, kind) :
           /\ Apply("craft", o)
           /\ Observed(Call("craft", kind, 0), o.status, o.value, o.level, o.m,
                       o.coord)

Craft == \E kind \in ContentKinds : CraftCall(kind)

Next == RunnerNew \/ Go \/ Teleport \/ Destroy \/ Put \/ Craft

Spec == Init /\ [][Next]_vars

-----------------------------------------------------------------------------
(* The energy ledger on its own: any initial value, any sequence of        *)
(* recharge_energy and consume_energy calls                                *)

InitialLevels == {0, 5, MAX_ENERGY_LEVEL - 1, MAX_ENERGY_LEVEL, MAX_ENERGY_LEVEL + 1}

EnergyAmounts == {0, 1, 6, 10, MAX_ENERGY_LEVEL, MAX_ENERGY_LEVEL + 1}

InitEnergy ==
    /\ phase = "ledger"
    /\ map = << >>
    /\ dimension = 0
    /\ weather_forecast = <<"Sunny">>
    /\ time_progression_minutes = 0
    /\ hour = 0
    /\ minute = 0
    /\ days = 0
    /\ forecast0 = <<"Sunny">>
    /\ discoverable = 0
    /\ coordinate = <<0, 0>>
    /\ energy_level \in {Energy_new(level) : level \in InitialLevels}
    /\ contents = BackPack_new
    /\ score = 0
    /\ res = Result("new", "Ok", 0)
    /\ returned = << >>
    /\ events = << >>
    /\ steps = 0
    /\ ticks = 0
    /\ BlankDiscovery
    /\ BlankTools

RechargeEnergy ==
    \E energy_to_add \in EnergyAmounts :
        /\ phase = "ledger"
        /\ energy_level' = recharge_energy(energy_level, energy_to_add)
        /\ res' = Result("recharge_energy", "Ok", energy_to_add)
        /\ UNCHANGED <<phase, map, dimension, clock, discoverable, coordinate,
                       contents, score, returned, events, steps, ticks, discovery,
                       tools>>

ConsumeEnergy ==
    \E energy_needed \in EnergyAmounts :
        LET consumed == consume_energy(energy_level, energy_needed)
        IN  /\ phase = "ledger"
            /\ energy_level' = consumed.level
            /\ res' = Result("consume_energy",
                             IF consumed.ok THEN "Ok" ELSE "NotEnoughEnergy",
                             energy_needed)
            /\ UNCHANGED <<phase, map, dimension, clock, discoverable, coordinate,
                           contents, score, returned, events, steps, ticks, discovery,
                       tools>>

NextEnergy == RechargeEnergy \/ ConsumeEnergy

SpecEnergy == InitEnergy /\ [][NextEnergy]_vars

-----------------------------------------------------------------------------
(* The game loop: runner/mod.rs game_tick around the robot's process_tick, *)
(* and the calls that look at the map                                      *)

energy_to_add == 10

\* a process_tick that leaves one more tile to discover
Played_refilled(result, m, coord, level, bp, sc, budget, tiles) ==
    [result |-> result, m |-> m, coord |-> coord, level |-> level, bp |-> bp,
     sc |-> sc, budget |-> budget + 1, tiles |-> tiles]

\* what a process_tick leaves behind: the result of the call it made, the
\* map, the robot and the discovery budget
Played(result, m, coord, level, bp, sc, budget, tiles) ==
    [result |-> result, m |-> m, coord |-> coord, level |-> level, bp |-> bp,
     sc |-> sc, budget |-> budget, tiles |-> tiles]

PlayedEngine(op, o, budget, tiles) ==
    Played(Result(op, o.status, o.value), o.m, o.coord, o.level, o.bp, o.sc,
           budget, tiles)

PlayedSeen(op, o, m, coord, bp, sc) ==
    Played(Result(op, o.status, o.value), m, coord, o.level, bp, sc, o.budget,
           o.tiles)

\* requests made to discover_tiles: none, one tile, the same tile twice, one
\* coordinate outside the map among three, more than the budget of a 3x3 map
DiscoverRequests ==
    {<< >>,
     << <<0, 0>> >>,
     << <<1, 1>>, <<1, 1>> >>,
     << <<0, 0>>, <<3, 0>>, <<2, 2>> >>,
     << <<0, 0>>, <<0, 1>>, <<0, 2>>, <<1, 0>> >>}

ViewDistances == {0, 1, 2, 5}

\* the routines a robot runs in process_tick: nothing, or one engine call
Routines ==
    {[call |-> "idle"]}
    \cup {[call |-> "go", direction |-> d] : d \in Directions}
    \cup {[call |-> "destroy", direction |-> d] : d \in Directions}
    \cup {[call |-> "discover_tiles", to_discover |-> r] : r \in DiscoverRequests}
    \cup {[call |-> "one_direction_view", direction |-> d, distance |-> n] :
             d \in Directions, n \in {2}}

\* the engine call a routine makes
RoutineCall(routine) ==
    CASE routine.call = "go" -> Call("go", routine.direction, 0)
      [] routine.call = "discover_tiles" ->
           Call("discover_tiles", routine.to_discover, 0)
      [] routine.call = "one_direction_view" ->
           Call("one_direction_view", routine.direction, routine.distance)
      [] OTHER -> Call(routine.call, 0, 0)

\* Runnable::process_tick of the robot running the given routine
process_tick(routine, m, coord, level, bp, sc, budget, tiles, dim, w, h) ==
    CASE routine.call = "idle" ->
           {Played(Result("idle", "Ok", 0), m, coord, level, bp, sc, budget, tiles)}
      [] routine.call = "go" ->
           {PlayedEngine("go", o, budget, tiles) :
               o \in go(m, coord, level, bp, sc, dim, w, h, routine.direction)}
      [] routine.call = "destroy" ->
           {PlayedEngine("destroy", o, budget, tiles) :
               o \in destroy(m, coord, level, bp, sc, dim, routine.direction)}
      [] routine.call = "discover_tiles" ->
           {PlayedSeen("discover_tiles", o, m, coord, bp, sc) :
               o \in discover_tiles(m, level, budget, routine.to_discover)}
      [] routine.call = "one_direction_view" ->
           {PlayedSeen("one_direction_view", o, m, coord, bp, sc) :
               o \in one_direction_view(m, coord, level, budget, dim,
                                        routine.direction, routine.distance)}

\* what a game_tick leaves behind: whether it panicked, the clock, what the
\* process_tick left with the energy recharged, and the events in order
Ticked(panic, t, p, level, log) ==
    [panic |-> panic, clock |-> t, played |-> p, level |-> level, events |-> log]

\* game_tick recharging the energy before the robot's routine runs
game_tick_recharging_first(forecast, minutes, h, mi, routine, m, coord, level, bp, sc, budget, tiles, dim) ==
    UNION {IF t.panic
           THEN {Ticked(TRUE, t,
                        Played(Result("idle", "Ok", 0), m, coord, level, bp, sc,
                               budget, tiles),
                        level, << >>)}
           ELSE {Ticked(p.result.status = "Panic", t, p, p.level,
                        <<Event(IF t.is_day_changed THEN "DayChanged"
                                ELSE "TimeChanged", <<t.hour, t.minute, t.forecast>>),
                          Event("process_tick", p.result),
                          Event("EnergyRecharged", energy_to_add)>>) :
                    p \in process_tick(routine, m, coord,
                                       recharge_energy(level, energy_to_add), bp, sc,
                                       budget, tiles, dim,
                                       get_weather_condition(t.forecast), t.hour)} :
           t \in tick(forecast, minutes, h, mi)}

\* Runner::game_tick: advance_time and its event, process_tick, the
\* recharge and its event
game_tick(forecast, minutes, h, mi, routine, m, coord, level, bp, sc, budget, tiles, dim) ==
    UNION {IF t.panic
           THEN {Ticked(TRUE, t,
                        Played(Result("idle", "Ok", 0), m, coord, level, bp, sc,
                               budget, tiles),
                        level, << >>)}
           ELSE {Ticked(p.result.status = "Panic", t, p,
                        recharge_energy(p.level, energy_to_add),
                        <<Event(IF t.is_day_changed THEN "DayChanged"
                                ELSE "TimeChanged", <<t.hour, t.minute, t.forecast>>),
                          Event("process_tick", p.result),
                          Event("EnergyRecharged", energy_to_add)>>) :
                    p \in process_tick(routine, m, coord, level, bp, sc, budget,
                                       tiles, dim,
                                       get_weather_condition(t.forecast), t.hour)} :
           t \in tick(forecast, minutes, h, mi)}

\* worlds and robots of the game loop: a day that changes on the second
\* tick, and a tick of 255 minutes
GeneratedGame ==
    {Gen(WorldContents, <<1, 1>>, <<"Sunny", "Rainy">>, 30, 23),
     Gen(WorldReceptacles, <<0, 2>>, <<"Rainy">>, 255, 12)}

RobotsGame ==
    {[energy |-> Energy_new(MAX_ENERGY_LEVEL), backpack |-> BackPack_new],
     [energy |-> Energy_new(MAX_ENERGY_LEVEL - 4), backpack |-> BackPack_new],
     [energy |-> Energy_new(7), backpack |-> Pack(3, 2, 5, 1, 0, 1, 0)]}

RunnerNewGame == \E gen \in GeneratedGame, robot \in RobotsGame : Runner_new(gen, robot)

\* a call that looks at the map ends in one of its outcomes
ApplySeen(op, o) ==
    /\ res' = Result(op, o.status, o.value)
    /\ energy_level' = o.level
    /\ discoverable' = o.budget
    /\ returned' = o.tiles
    /\ steps' = steps + 1
    /\ UNCHANGED <<phase, map, dimension, clock, coordinate, contents, score,
                   ticks, worlds, tools>>

DiscoverTilesCall(to_discover) ==
    /\ CanCall
    /\ \E o \in discover_tiles(map, energy_level, discoverable, to_discover) :
           /\ ApplySeen("discover_tiles", o)
           /\ Observed(Call("discover_tiles", to_discover, 0), o.status, o.value,
                       o.level, map, coordinate)

DiscoverTiles == \E to_discover \in DiscoverRequests : DiscoverTilesCall(to_discover)

OneDirectionViewCall(direction, distance) ==
    /\ CanCall
    /\ \E o \in one_direction_view(map, coordinate, energy_level, discoverable,
                                   dimension, direction, distance) :
           /\ ApplySeen("one_direction_view", o)
           /\ Observed(Call("one_direction_view", direction, distance), o.status,
                       o.value, o.level, map, coordinate)

OneDirectionView ==
    \E direction \in Directions, distance \in ViewDistances :
        OneDirectionViewCall(direction, distance)

\* a game tick is one of the calls of a run; one that panics ends the run
\* where the panic found it
GameTickCall(routine) ==
    /\ CanCall
    /\ \E g \in game_tick(weather_forecast, time_progression_minutes, hour, minute,
                          routine, map, coordinate, energy_level, contents, score,
                          discoverable, returned, dimension) :
           /\ res' = Result("game_tick", IF g.panic THEN "Panic" ELSE "Ok", 0)
           /\ phase' = IF g.panic THEN "panicked" ELSE phase
           /\ weather_forecast' = g.clock.forecast
           /\ hour' = g.clock.hour
           /\ minute' = g.clock.minute
           /\ days' = IF g.clock.is_day_changed THEN days + 1 ELSE days
           /\ map' = g.played.m
           /\ coordinate' = g.played.coord
           /\ energy_level' = g.level
           /\ contents' = g.played.bp
           /\ score' = g.played.sc
           /\ discoverable' = g.played.budget
           /\ returned' = g.played.tiles
           /\ events' = g.events
           /\ plot' = plot \cup plotted(RoutineCall(routine),
                                         g.played.result.status, map,
                                         coordinate, g.played.coord, dimension)
           /\ viewed' = viewed \cup plotted(RoutineCall(routine),
                                             g.played.result.status, map,
                                             coordinate, g.played.coord, dimension)
           /\ ticks' = ticks + 1
           /\ steps' = steps + 1
           /\ UNCHANGED <<dimension, time_progression_minutes, forecast0, worlds,
                          tools>>

GameTick == \E routine \in Routines : GameTickCall(routine)

NextGame == RunnerNewGame \/ DiscoverTiles \/ OneDirectionView \/ GameTick

SpecGame == Init /\ [][NextGame]_vars

-----------------------------------------------------------------------------
(* add_to_backpack on its own: any backpack within its capacity, any       *)
(* sequence of additions                                                   *)

AddedKinds == {"Rock", "Tree", "Coin", "Water"}

AddedQuantities == {0, 1, 5, 20, 25}

InitBackpack ==
    /\ phase = "backpack"
    /\ res = Result("new", "Ok", 0)
    /\ contents \in {robot.backpack : robot \in Robots}
    /\ map = << >>
    /\ dimension = 0
    /\ weather_forecast = <<"Sunny">>
    /\ time_progression_minutes = 0
    /\ hour = 0
    /\ minute = 0
    /\ days = 0
    /\ forecast0 = <<"Sunny">>
    /\ discoverable = 0
    /\ coordinate = <<0, 0>>
    /\ energy_level = 0
    /\ score = 0
    /\ returned = << >>
    /\ events = << >>
    /\ steps = 0
    /\ ticks = 0
    /\ BlankDiscovery
    /\ BlankTools

AddToBackpackCall(kind, quantity) ==
    LET added == add_to_backpack(contents, kind, quantity)
    IN  /\ phase = "backpack"
        /\ steps < MaxSteps
        /\ contents' = added.bp
        /\ res' = Result("add_to_backpack",
                         IF added.ok THEN "Ok" ELSE "NotEnoughSpace", added.amt)
        /\ steps' = steps + 1
        /\ UNCHANGED <<phase, map, dimension, clock, discoverable, coordinate,
                       energy_level, score, returned, events, ticks, discovery,
                       tools>>

AddToBackpack ==
    \E kind \in AddedKinds, quantity \in AddedQuantities :
        AddToBackpackCall(kind, quantity)

NextBackpack == AddToBackpack

SpecBackpack == InitBackpack /\ [][NextBackpack]_vars

-----------------------------------------------------------------------------
(* The environmental conditions on their own: any forecast, minutes per    *)
(* tick and starting hour that EnvironmentalConditions::new accepts, any   *)
(* number of ticks                                                         *)

Forecasts ==
    {<< >>, <<"Sunny">>, <<"Sunny", "Rainy">>, <<"Rainy", "Foggy", "TrentinoSnow">>}

Granularities == {0, 15, 30, 60, 90, 255}

StartingHours == {0, 12, 23, 24, 25}

InitClock ==
    /\ phase = "clock"
    /\ res = Result("new", "Ok", 0)
    /\ \E forecast \in Forecasts, minutes \in Granularities,
          starting_hour \in StartingHours :
           /\ EnvironmentalConditions_new(forecast, minutes, starting_hour) = "Ok"
           /\ weather_forecast = forecast
           /\ forecast0 = forecast
           /\ time_progression_minutes = minutes
           /\ hour = starting_hour
    /\ minute = 0
    /\ days = 0
    /\ ticks = 0
    /\ map = << >>
    /\ dimension = 0
    /\ discoverable = 0
    /\ coordinate = <<0, 0>>
    /\ energy_level = 0
    /\ contents = BackPack_new
    /\ score = 0
    /\ returned = << >>
    /\ events = << >>
    /\ steps = 0
    /\ BlankDiscovery
    /\ BlankTools

\* tick() returns whether the day changed: the value of the result is 1 for
\* true and 0 for false; a tick that panics ends the run
Tick ==
    /\ phase = "clock"
    /\ ticks < MaxTicks
    /\ \E t \in tick(weather_forecast, time_progression_minutes, hour, minute) :
           /\ res' = Result("tick", IF t.panic THEN "Panic" ELSE "Ok",
                            IF t.is_day_changed THEN 1 ELSE 0)
           /\ phase' = IF t.panic THEN "panicked" ELSE phase
           /\ weather_forecast' = t.forecast
           /\ hour' = t.hour
           /\ minute' = t.minute
           /\ days' = IF t.is_day_changed THEN days + 1 ELSE days
           /\ ticks' = ticks + 1
           /\ UNCHANGED <<map, dimension, time_progression_minutes, forecast0,
                          discoverable, coordinate, energy_level, contents, score,
                          returned, events, steps, discovery, tools>>

NextClock == Tick

SpecClock == InitClock /\ [][NextClock]_vars

-----------------------------------------------------------------------------
(* The discovery plot: the views of the robot, robot_map, and a process    *)
(* that builds one runner after another                                    *)

MaxWorlds == 2

\* a 3x3 world, and a 2x2 world with the robot on a teleport
GeneratedPlot ==
    {Gen(WorldContents, <<0, 2>>, <<"Sunny">>, 30, 12),
     Gen(WorldTeleportHigh, <<1, 1>>, <<"Sunny">>, 30, 12)}

RobotsPlot == {[energy |-> Energy_new(MAX_ENERGY_LEVEL), backpack |-> BackPack_new]}

RunnerNewPlot == \E gen \in GeneratedPlot, robot \in RobotsPlot : Runner_new(gen, robot)

\* Runner::new called again by the process of a runner that is running:
\* a new world and a new robot; PLOT is a static of the process and keeps
\* its coordinates
Runner_again(gen, robot) ==
    /\ phase = "running"
    /\ worlds < MaxWorlds
    /\ check_world(gen.map) = "Ok"
    /\ res' = Result("new", "Ok", 0)
    /\ map' = IF TileAt(gen.map, gen.spawn[1], gen.spawn[2]).tile_type
                 = "Teleport(false)"
              THEN SetTileType(gen.map, gen.spawn, "Teleport(true)")
              ELSE gen.map
    /\ dimension' = Len(gen.map)
    /\ discoverable' = World_new_discoverable(Len(gen.map))
    /\ weather_forecast' = gen.weather_forecast
    /\ time_progression_minutes' = gen.time_progression_minutes
    /\ hour' = gen.hour
    /\ minute' = 0
    /\ days' = 0
    /\ forecast0' = gen.weather_forecast
    /\ coordinate' = gen.spawn
    /\ energy_level' = robot.energy
    /\ contents' = robot.backpack
    /\ score' = 0
    /\ events' = <<Event("Ready", 0)>>
    /\ viewed' = {}
    /\ worlds' = worlds + 1
    /\ UNCHANGED <<phase, returned, steps, ticks, plot, tools>>

RunnerNewAgain == \E gen \in GeneratedPlot, robot \in RobotsPlot : Runner_again(gen, robot)

\* robot_view called on its own
RobotView ==
    /\ CanCall
    /\ res' = Result("robot_view", "Ok", 0)
    /\ returned' = robot_view(map, coordinate, dimension)
    /\ steps' = steps + 1
    /\ Observed(Call("robot_view", 0, 0), "Ok", 0, energy_level, map, coordinate)
    /\ UNCHANGED <<phase, map, dimension, clock, discoverable, coordinate,
                   energy_level, contents, score, ticks, worlds, tools>>

\* robot_map: the value of the call is kept in returned
RobotMap ==
    LET r == robot_map(map, dimension, plot)
    IN  /\ CanCall
        /\ res' = Result("robot_map", IF r.panic THEN "Panic" ELSE "Ok", 0)
        /\ phase' = IF r.panic THEN "panicked" ELSE phase
        /\ returned' = r.out
        /\ events' = << >>
        /\ steps' = steps + 1
        /\ UNCHANGED <<map, dimension, clock, discoverable, coordinate, energy_level,
                       contents, score, ticks, discovery, tools>>

NextPlot ==
    \/ RunnerNewPlot
    \/ RunnerNewAgain
    \/ Go
    \/ Teleport
    \/ RobotView
    \/ DiscoverTiles
    \/ OneDirectionView
    \/ RobotMap

SpecPlot == Init /\ [][NextPlot]_vars

-----------------------------------------------------------------------------
(* tools/dijkstra.rs: the tile matrix as a graph, Dijkstra's algorithm,    *)
(* the reconstruction of paths and the route through several targets       *)

MaxTargets == 2

Node(index, distance) == [index |-> index, distance |-> distance]

NotWalkable == {"DeepWater", "Lava", "Wall"}

get_cost(tile) ==
    IF tile.tile_type \in NotWalkable
    THEN 100000
    ELSE TileTypeProps(tile.tile_type).cost

is_wakable(tile) == tile.tile_type \notin NotWalkable

get_cost_elevation(tile_arrive, tile_start) ==
    IF tile_arrive.elevation <= tile_start.elevation
    THEN 0
    ELSE (tile_arrive.elevation - tile_start.elevation)
         * (tile_arrive.elevation - tile_start.elevation)

\* the weight pushed for a walkable neighbour
neighbour_weight(tile_arrive, tile) ==
    IF tile_arrive.elevation = 0
    THEN get_cost(tile_arrive)
    ELSE get_cost(tile_arrive) + get_cost_elevation(tile_arrive, tile)

\* get_neighbours with the labels of the rows above and below computed from
\* the number of rows
get_neighbours_by_rows(matrix_tile, x, y, value, tile) ==
    LET rows == Len(matrix_tile)
        cols == Len(matrix_tile[1])
        bottom == IF x - 1 >= 0 /\ x - 1 < rows /\ y < cols
                     /\ is_wakable(TileAt(matrix_tile, x - 1, y))
                  THEN <<Node(value - rows,
                              neighbour_weight(TileAt(matrix_tile, x - 1, y), tile))>>
                  ELSE << >>
        right == IF x < rows /\ y + 1 < cols
                    /\ is_wakable(TileAt(matrix_tile, x, y + 1))
                 THEN <<Node(value + 1,
                             neighbour_weight(TileAt(matrix_tile, x, y + 1), tile))>>
                 ELSE << >>
        top == IF x + 1 < rows /\ y < cols
                  /\ is_wakable(TileAt(matrix_tile, x + 1, y))
               THEN <<Node(value + rows,
                           neighbour_weight(TileAt(matrix_tile, x + 1, y), tile))>>
               ELSE << >>
        left == IF x < rows /\ y - 1 >= 0 /\ y - 1 < cols
                   /\ is_wakable(TileAt(matrix_tile, x, y - 1))
                THEN <<Node(value - 1,
                            neighbour_weight(TileAt(matrix_tile, x, y - 1), tile))>>
                ELSE << >>
    IN  bottom \o right \o top \o left

get_neighbours(matrix_tile, x, y, value, tile) ==
    LET rows == Len(matrix_tile)
        cols == Len(matrix_tile[1])
        bottom == IF x - 1 >= 0 /\ x - 1 < rows /\ y < cols
                     /\ is_wakable(TileAt(matrix_tile, x - 1, y))
                  THEN <<Node(value - cols,
                              neighbour_weight(TileAt(matrix_tile, x - 1, y), tile))>>
                  ELSE << >>
        right == IF x < rows /\ y + 1 < cols
                    /\ is_wakable(TileAt(matrix_tile, x, y + 1))
                 THEN <<Node(value + 1,
                             neighbour_weight(TileAt(matrix_tile, x, y + 1), tile))>>
                 ELSE << >>
        top == IF x + 1 < rows /\ y < cols
                  /\ is_wakable(TileAt(matrix_tile, x + 1, y))
               THEN <<Node(value + cols,
                           neighbour_weight(TileAt(matrix_tile, x + 1, y), tile))>>
               ELSE << >>
        left == IF x < rows /\ y - 1 >= 0 /\ y - 1 < cols
                   /\ is_wakable(TileAt(matrix_tile, x, y - 1))
                THEN <<Node(value - 1,
                            neighbour_weight(TileAt(matrix_tile, x, y - 1), tile))>>
                ELSE << >>
    IN  bottom \o right \o top \o left

\* TileTypeOrContent
OfTileType(tile_type) == [variant |-> "TileType", value |-> tile_type]
OfContent(c) == [variant |-> "Content", value |-> c]

\* the tile a label stands for: label_node counts the tiles row by row
LabelRow(matrix_tile, label) == label \div Len(matrix_tile[1])
LabelCol(matrix_tile, label) == label % Len(matrix_tile[1])
LabelTile(matrix_tile, label) ==
    TileAt(matrix_tile, LabelRow(matrix_tile, label), LabelCol(matrix_tile, label))

Labels(matrix_tile) == 0..(Len(matrix_tile) * Len(matrix_tile[1]) - 1)

is_target(tile, tile_or_content) ==
    /\ is_wakable(tile)
    /\ IF tile_or_content.variant = "TileType"
       THEN tile.tile_type = tile_or_content.value
       ELSE tile.content = tile_or_content.value

RECURSIVE targets_from(_, _, _)
\* the labels from label on that are targets, in increasing order
targets_from(matrix_tile, tile_or_content, label) ==
    IF label \notin Labels(matrix_tile)
    THEN << >>
    ELSE (IF is_target(LabelTile(matrix_tile, label), tile_or_content)
          THEN <<label>> ELSE << >>)
         \o targets_from(matrix_tile, tile_or_content, label + 1)

\* (matrix_node, target_nodes); matrix_node[label + 1] are the edges out of
\* the node label
change_matrix(matrix_tile, tile_or_content) ==
    [matrix_node |->
        [n \in 1..(Len(matrix_tile) * Len(matrix_tile[1])) |->
            IF is_wakable(LabelTile(matrix_tile, n - 1))
            THEN get_neighbours(matrix_tile, LabelRow(matrix_tile, n - 1),
                                LabelCol(matrix_tile, n - 1), n - 1,
                                LabelTile(matrix_tile, n - 1))
            ELSE << >>],
     target_nodes |-> targets_from(matrix_tile, tile_or_content, 0)]

INF == 2147483647

\* Node::cmp reversed: the entries the heap may pop are the farthest ones
heap_top_farthest(h) == {n \in h : \A other \in h : n.distance >= other.distance}

\* Node::cmp orders the heap by smallest distance: the entries the heap may
\* pop next, in whatever order it keeps equal ones
heap_top(h) == {n \in h : \A other \in h : n.distance <= other.distance}

unwrap_or(option, default) == IF option = None THEN default ELSE option[1]

RECURSIVE relax(_, _, _, _, _)
\* the loop over the neighbours of the popped node, from the i-th on;
\* st holds distance, predecessor and heap
relax(st, index, dist, edges, i) ==
    IF i > Len(edges)
    THEN st
    ELSE LET neighbor == edges[i]
             new_distance == dist + neighbor.distance
             neighbor_distance == unwrap_or(st.distance[neighbor.index + 1], INF)
         IN  IF new_distance < neighbor_distance
             THEN relax([distance |-> [st.distance EXCEPT
                                          ![neighbor.index + 1] = Some(new_distance)],
                         predecessor |-> [st.predecessor EXCEPT
                                          ![neighbor.index + 1] = Some(index)],
                         heap |-> st.heap \cup {Node(neighbor.index, new_distance)}],
                        index, dist, edges, i + 1)
             ELSE relax(st, index, dist, edges, i + 1)

RECURSIVE walk_back(_, _, _)
\* walks the predecessors back from current; path is the part already walked
walk_back(predecessor, current, path) ==
    IF predecessor[current + 1] = None
    THEN <<current>> \o path
    ELSE walk_back(predecessor, predecessor[current + 1][1], <<current>> \o path)

reconstruct_shortest_path(predecessor, target) ==
    LET path == walk_back(predecessor, target, << >>)
    IN  IF path = <<target>> THEN None ELSE Some(path)

PathResult(path, target_node, total_cost) ==
    [path |-> path, target_node |-> target_node, total_cost |-> total_cost]

\* the results find_shortest_paths builds from what dijkstra returned
find_shortest_paths(distances, predecessor, targets) ==
    [i \in 1..Len(targets) |->
        PathResult(reconstruct_shortest_path(predecessor, targets[i]),
                   targets[i],
                   unwrap_or(distances[targets[i] + 1], 0))]

\* Iterator::min_by_key on total_cost: the first of the smallest
min_by_key(paths) ==
    paths[CHOOSE i \in 1..Len(paths) :
            \A j \in 1..Len(paths) :
                \/ paths[i].total_cost < paths[j].total_cost
                \/ paths[i].total_cost = paths[j].total_cost /\ i <= j]

get_coordinates(matrix) ==
    [label \in Labels(matrix) |-> <<LabelRow(matrix, label), LabelCol(matrix, label)>>]

step_direction(current_coords, next_coords) ==
    LET d == <<next_coords[1] - current_coords[1], next_coords[2] - current_coords[2]>>
    IN  CASE d = <<-1, 0>> -> "Up"
          [] d = <<1, 0>> -> "Down"
          [] d = <<0, -1>> -> "Left"
          [] d = <<0, 1>> -> "Right"
          [] OTHER -> "Err"

\* Ok(directions) or Err
path_to_directions(coordinates, path) ==
    LET moves == [i \in 1..(Len(path) - 1) |->
                    IF path[i] \in DOMAIN coordinates /\ path[i + 1] \in DOMAIN coordinates
                    THEN step_direction(coordinates[path[i]], coordinates[path[i + 1]])
                    ELSE "Err"]
    IN  IF \E i \in 1..Len(moves) : moves[i] = "Err"
        THEN [err |-> TRUE, directions |-> << >>]
        ELSE [err |-> FALSE, directions |-> moves]

contains(targets, index) == \E i \in 1..Len(targets) : targets[i] = index

retain(targets, removed) ==
    LET Kept(x) == x # removed
    IN  SelectSeq(targets, Kept)

RECURSIVE push_unvisited(_, _, _, _, _)
\* the pushes of find_connected_targets for the neighbours from the i-th on
push_unvisited(h, vis, distance, edges, i) ==
    IF i > Len(edges)
    THEN h
    ELSE push_unvisited(IF vis[edges[i].index + 1]
                        THEN h
                        ELSE h \cup {Node(edges[i].index, distance + edges[i].index)},
                        vis, distance, edges, i + 1)

RECURSIVE connected_from(_, _, _, _, _)
\* the lists find_connected_targets can return from a heap h, the nodes
\* visited so far and the targets collected so far
connected_from(g, targets, h, vis, connected_targets) ==
    IF h = {}
    THEN {connected_targets}
    ELSE UNION {
            IF vis[n.index + 1]
            THEN connected_from(g, targets, h \ {n}, vis, connected_targets)
            ELSE connected_from(g, targets,
                                push_unvisited(h \ {n},
                                               [vis EXCEPT ![n.index + 1] = TRUE],
                                               n.distance, g[n.index + 1], 1),
                                [vis EXCEPT ![n.index + 1] = TRUE],
                                IF contains(targets, n.index)
                                THEN Append(connected_targets, n.index)
                                ELSE connected_targets)
            : n \in heap_top(h)}

find_connected_targets(g, s, targets) ==
    connected_from(g, targets, {Node(s, 0)}, [n \in 1..Len(g) |-> FALSE], << >>)

\* a 3x3 matrix: two cheapest paths from the corner (0, 0) to the hill in
\* the middle, and a corner (2, 2) no walkable tile leads to
GridIsland ==
    << << Tile("Grass", NoContent, 0), Tile("Grass", NoContent, 0),
          Tile("Wall", NoContent, 0) >>,
       << Tile("Grass", NoContent, 0), Tile("Hill", NoContent, 2),
          Tile("Lava", NoContent, 0) >>,
       << Tile("Street", NoContent, 0), Tile("DeepWater", NoContent, 0),
          Tile("Sand", NoContent, 0) >> >>

\* 2 rows of 3 tiles: a climb, a tile of lava and tiles that cost nothing
GridWide ==
    << << Tile("Sand", NoContent, 0), Tile("Mountain", NoContent, 1),
          Tile("Lava", NoContent, 0) >>,
       << Tile("Grass", NoContent, 0), Tile("Street", NoContent, 0),
          Tile("Teleport(false)", NoContent, 0) >> >>

Grids == {GridIsland, GridWide}

Wanted == <<OfTileType("Grass"), OfTileType("Hill"), OfContent(NoContent)>>

RECURSIVE TargetLists(_, _)
\* the lists of at most n distinct nodes
TargetLists(nodes, n) ==
    IF n = 0
    THEN {<< >>}
    ELSE LET shorter == TargetLists(nodes, n - 1)
         IN  shorter
             \cup UNION {{Append(l, x) : x \in {y \in nodes : ~contains(l, y)}}
                         : l \in {t \in shorter : Len(t) = n - 1}}

\* what the pathfinding leaves alone
robot_world ==
    <<dimension, clock, discoverable, coordinate, energy_level, contents, score,
      events, steps, ticks, discovery>>

InitPaths ==
    /\ phase = "tiles"
    /\ res = Result("none", "Ok", 0)
    /\ map \in Grids
    /\ dimension = Len(map)
    /\ weather_forecast = <<"Sunny">>
    /\ time_progression_minutes = 0
    /\ hour = 0
    /\ minute = 0
    /\ days = 0
    /\ forecast0 = <<"Sunny">>
    /\ discoverable = 0
    /\ coordinate = <<0, 0>>
    /\ energy_level = 0
    /\ contents = BackPack_new
    /\ score = 0
    /\ returned = << >>
    /\ events = << >>
    /\ steps = 0
    /\ ticks = 0
    /\ BlankDiscovery
    /\ graph = << >>
    /\ path_start \in Labels(map)
    /\ start0 = path_start
    /\ target_nodes = << >>
    /\ final_path = << >>
    /\ shortest_distances = << >>
    /\ predecessors = << >>
    /\ visited = << >>
    /\ heap = {}
    /\ targets0 = << >>

dijkstra_locals == <<shortest_distances, predecessors, visited, heap>>

ChangeMatrix ==
    /\ phase = "tiles"
    /\ \E i \in 1..Len(Wanted) :
          /\ graph' = change_matrix(map, Wanted[i]).matrix_node
          /\ target_nodes' = change_matrix(map, Wanted[i]).target_nodes
    /\ phase' = "graph"
    /\ res' = Result("change_matrix", "Ok", 0)
    /\ UNCHANGED <<map, returned, robot_world, path_start, final_path,
                   dijkstra_locals, start0, targets0>>

FindConnectedTargets ==
    /\ phase = "graph"
    /\ target_nodes' \in find_connected_targets(graph, path_start, target_nodes)
    /\ phase' = "targets"
    /\ res' = Result("find_connected_targets", "Ok", 0)
    /\ UNCHANGED <<map, returned, robot_world, graph, path_start, final_path,
                   dijkstra_locals, start0, targets0>>

\* a caller that routes through a list of its own
CallerTargets ==
    /\ phase = "graph"
    /\ target_nodes' \in TargetLists(Labels(map), MaxTargets)
    /\ phase' = "targets"
    /\ res' = Result("targets", "Ok", 0)
    /\ UNCHANGED <<map, returned, robot_world, graph, path_start, final_path,
                   dijkstra_locals, start0, targets0>>

\* the call of build_path, up to its loop
BuildPath ==
    /\ phase = "targets"
    /\ phase' = "build_path"
    /\ final_path' = << >>
    /\ targets0' = target_nodes
    /\ UNCHANGED <<map, res, returned, robot_world, graph, path_start, target_nodes,
                   dijkstra_locals, start0>>

\* the test of the while loop of build_path: return, or call
\* find_shortest_paths, which enters dijkstra
BuildPathLoop ==
    /\ phase = "build_path"
    /\ IF target_nodes = << >>
       THEN /\ phase' = "built"
            /\ res' = Result("build_path", "Ok", 0)
            /\ returned' = final_path
            /\ UNCHANGED dijkstra_locals
       ELSE /\ phase' = "dijkstra"
            /\ shortest_distances' = [n \in 1..Len(graph) |->
                                        IF n = path_start + 1 THEN Some(0) ELSE None]
            /\ predecessors' = [n \in 1..Len(graph) |-> None]
            /\ visited' = [n \in 1..Len(graph) |-> FALSE]
            /\ heap' = {Node(path_start, 0)}
            /\ UNCHANGED <<res, returned>>
    /\ UNCHANGED <<map, robot_world, graph, path_start, target_nodes, final_path,
                   start0, targets0>>

\* one turn of the loop of dijkstra
Pop ==
    /\ phase = "dijkstra"
    /\ \E n \in heap_top(heap) :
          IF visited[n.index + 1]
          THEN /\ heap' = heap \ {n}
               /\ UNCHANGED <<shortest_distances, predecessors, visited>>
          ELSE LET st == relax([distance |-> shortest_distances,
                                predecessor |-> predecessors,
                                heap |-> heap \ {n}],
                               n.index, n.distance, graph[n.index + 1], 1)
               IN  /\ visited' = [visited EXCEPT ![n.index + 1] = TRUE]
                   /\ shortest_distances' = st.distance
                   /\ predecessors' = st.predecessor
                   /\ heap' = st.heap
    /\ UNCHANGED <<phase, map, res, returned, robot_world, graph, path_start,
                   target_nodes, final_path, start0, targets0>>

\* the heap is empty: dijkstra returns (distance, predecessor)
DijkstraReturn ==
    /\ phase = "dijkstra"
    /\ heap = {}
    /\ phase' = "searched"
    /\ UNCHANGED <<map, res, returned, robot_world, tools>>

\* the rest of find_shortest_paths and of the turn of the loop of build_path
BuildPathStep ==
    /\ phase = "searched"
    /\ LET paths == find_shortest_paths(shortest_distances, predecessors, target_nodes)
           best == min_by_key(paths)
           directions == path_to_directions(get_coordinates(map), best.path[1])
       IN  IF best.path = None
           THEN /\ phase' = "build_path"
                /\ UNCHANGED <<res, returned, path_start, final_path, target_nodes>>
           ELSE IF directions.err
           THEN /\ phase' = "built"
                /\ res' = Result("build_path", "Err", 0)
                /\ returned' = << >>
                /\ path_start' = best.path[1][Len(best.path[1])]
                /\ UNCHANGED <<final_path, target_nodes>>
           ELSE /\ phase' = "build_path"
                /\ path_start' = best.path[1][Len(best.path[1])]
                /\ final_path' = Append(final_path, directions.directions)
                /\ target_nodes' = retain(target_nodes, best.target_node)
                /\ UNCHANGED <<res, returned>>
    /\ UNCHANGED <<map, robot_world, graph, dijkstra_locals, start0, targets0>>

NextPaths ==
    \/ ChangeMatrix
    \/ FindConnectedTargets
    \/ CallerTargets
    \/ BuildPath
    \/ BuildPathLoop
    \/ Pop
    \/ DijkstraReturn
    \/ BuildPathStep

SpecPaths == InitPaths /\ [][NextPaths]_vars

\* the loops of build_path and of dijkstra keep running
SpecPathsLive == SpecPaths /\ WF_vars(NextPaths)

-----------------------------------------------------------------------------
(* Properties *)

\* the tile an engine call in the given direction is aimed at
Target(direction) ==
    LET t == get_coords_row_col(coordinate, direction)
    IN  TileAt(map, t[1], t[2])

\* the same tile after the call
TargetAfter(direction) ==
    LET t == get_coords_row_col(coordinate, direction)
    IN  TileAt(map', t[1], t[2])

FreeSpace == BACKPACK_SIZE - Total(contents)

\* C1: starting from a backpack whose total is at most its capacity, after
\* any sequence of destroy, put and craft calls, successful or failed, the
\* sum of the quantities held is at most the capacity.
C1_BackpackWithinCapacity == Total(contents) <= BACKPACK_SIZE

\* a call was refused for lack of space after filling the backpack to the brim
C1_Witness ==
    /\ res.op \in {"destroy", "put", "craft"}
    /\ res.status = "NotEnoughSpace"
    /\ res.value > 0
    /\ Total(contents) = BACKPACK_SIZE

\* C2: for every sequence of recharge and consume calls on an energy ledger
\* created with any initial value, the level stays within 0..MAX_ENERGY_LEVEL,
\* and a consume of n with level < n is rejected with NotEnoughEnergy and
\* leaves the level unchanged.
C2_EnergyWithinBounds ==
    /\ [](energy_level \in 0..MAX_ENERGY_LEVEL)
    /\ [][res'.op = "consume_energy" /\ energy_level < res'.value
          => res'.status = "NotEnoughEnergy" /\ energy_level' = energy_level]_vars

\* a consume larger than the level was rejected on a ledger that earlier
\* calls had moved away from its initial value
C2_Witness ==
    /\ res.op = "consume_energy"
    /\ res.status = "NotEnoughEnergy"
    /\ 0 < energy_level
    /\ energy_level < res.value
    /\ energy_level \notin InitialLevels

\* C3: in a world accepted by check_world, after any sequence of put and
\* destroy calls every tile's content is one its current terrain can hold,
\* including after the terrain has been converted to street.
C3_ContentHeldByTerrain ==
    phase = "running" =>
        \A r \in 1..Len(map) : \A c \in 1..Len(map[r]) :
            can_hold(map[r][c].tile_type, to_default(map[r][c].content))

\* C4: from runner construction onward, after any sequence of go and
\* teleport calls, the robot's row and column are below the world dimension.
C4_RobotInsideWorld ==
    phase = "running" => coordinate[1] < dimension /\ coordinate[2] < dimension

\* the robot has teleported to the last row or column of the map
C4_Witness ==
    /\ res.op = "teleport"
    /\ res.status = "Ok"
    /\ coordinate[1] = dimension - 1 \/ coordinate[2] = dimension - 1

\* C5: if the backpack's free space f satisfies 0 < f < the quantity yielded
\* by the destroyed content, destroy still succeeds: it returns Ok(f), stores
\* f units, charges the content's cost and clears the tile to None.
C5_PartialSpaceDestroySucceeds ==
    [][\A direction \in Directions :
          (/\ res'.op = "destroy"
           /\ in_bounds(coordinate, dimension, direction)
           /\ can_destroy(map, dimension,
                          get_coords_row_col(coordinate, direction)[1],
                          get_coords_row_col(coordinate, direction)[2]) = "Ok"
           /\ has_value(Target(direction).content)
           /\ has_enough_energy(energy_level,
                                ContentProps(Target(direction).content.kind).cost)
           /\ 0 < FreeSpace
           /\ FreeSpace < get_value(Target(direction).content)
           /\ DestroyCall(direction))
          => /\ res'.status = "Ok"
             /\ res'.value = FreeSpace
             /\ contents' = [contents EXCEPT ![Target(direction).content.kind] =
                                                 @ + FreeSpace]
             /\ energy_level' =
                    energy_level - ContentProps(Target(direction).content.kind).cost
             /\ TargetAfter(direction).content = NoContent]_vars

\* the case of C6: a destroy with a full backpack, aimed at destroyable
\* content that the robot's energy covers
FullBackpackDestroy(direction) ==
    /\ res'.op = "destroy"
    /\ in_bounds(coordinate, dimension, direction)
    /\ can_destroy(map, dimension,
                   get_coords_row_col(coordinate, direction)[1],
                   get_coords_row_col(coordinate, direction)[2]) = "Ok"
    /\ has_enough_energy(energy_level,
                         ContentProps(Target(direction).content.kind).cost)
    /\ FreeSpace = 0
    /\ DestroyCall(direction)

DestroyRefusedForSpace ==
    /\ res'.status = "NotEnoughSpace"
    /\ res'.value = 0
    /\ UNCHANGED <<map, energy_level, contents, score>>

\* C6 as stated: with zero free space, destroy aimed at destroyable non-empty
\* content fails with NotEnoughSpace(0), leaving tile, energy, backpack and
\* score unchanged.
C6_FullBackpackDestroyFails ==
    [][\A direction \in Directions :
          FullBackpackDestroy(direction) => DestroyRefusedForSpace]_vars

\* C6 amended: with zero free space, destroy aimed at destroyable content
\* that yields at least one unit fails with NotEnoughSpace(0), leaving tile,
\* energy, backpack and score unchanged.
C6_FullBackpackDestroyOfUnitsFails ==
    [][\A direction \in Directions :
          (/\ FullBackpackDestroy(direction)
           /\ \/ Target(direction).content = Fire
              \/ /\ has_value(Target(direction).content)
                 /\ get_value(Target(direction).content) >= 1)
          => DestroyRefusedForSpace]_vars

\* a destroy was refused with NotEnoughSpace(0) by a full backpack
C6_Witness ==
    /\ res.op = "destroy"
    /\ res.status = "NotEnoughSpace"
    /\ res.value = 0
    /\ Total(contents) = BACKPACK_SIZE

\* some recipe of kind has its ingredient in the backpack, but less than needed
PartlySupplied(kind) ==
    \E i \in 1..Len(ContentProps(kind).craft) :
        /\ 0 < contents[ContentProps(kind).craft[i][1]]
        /\ contents[ContentProps(kind).craft[i][1]] < ContentProps(kind).craft[i][2]

\* no recipe of kind has all of its ingredient in the backpack
NoRecipeSupplied(kind) ==
    \A i \in 1..Len(ContentProps(kind).craft) :
        contents[ContentProps(kind).craft[i][1]] < ContentProps(kind).craft[i][2]

\* C7: if the backpack holds a non-zero amount of a recipe's ingredient that
\* is less than required, craft rolls the partial removal back and moves on
\* to the next recipe; when no recipe can be fully supplied, craft fails with
\* NotCraftable, backpack and energy unchanged, no crafted item added.
C7_PartialIngredientNotCraftable ==
    [][\A kind \in ContentKinds :
          (/\ res'.op = "craft"
           /\ PartlySupplied(kind)
           /\ NoRecipeSupplied(kind)
           /\ CraftCall(kind))
          => /\ res'.status = "NotCraftable"
             /\ UNCHANGED <<contents, energy_level>>]_vars

\* the put in direction d deposits into a receptacle or sells to a market
DepositOrSale(kind, direction) ==
    \/ Target(direction).content.kind = "Bank" /\ kind = "Coin"
    \/ Target(direction).content.kind = "Bin" /\ kind = "Garbage"
    \/ Target(direction).content.kind = "Crate" /\ kind = "Tree"
    \/ Target(direction).content.kind = "Market"

\* C8 as stated: for every successful put that moves content out of the
\* backpack, the quantity removed is at most min(requested quantity,
\* quantity held, the content kind's max).
C8_PutRemovesAtMostMin ==
    [][res'.op = "put" /\ res'.status = "Ok"
       => \A kind \in {k \in ContentKinds : contents'[k] < contents[k]} :
              \A quantity \in PutQuantities, direction \in Directions :
                  PutCall(kind, quantity, direction)
                  => contents[kind] - contents'[kind]
                         <= Min(Min(quantity, contents[kind]),
                                ContentProps(kind).max)]_vars

\* C8 amended: for every successful put that moves content out of the
\* backpack, the quantity removed is at most the quantity held and at most
\* the requested quantity, or one unit when zero was requested; it is at most
\* the content kind's max unless the put deposits into a bank, bin or crate
\* or sells to a market.
C8_PutRemovesAtMostRequestedAndHeld ==
    [][res'.op = "put" /\ res'.status = "Ok"
       => \A kind \in {k \in ContentKinds : contents'[k] < contents[k]} :
              \A quantity \in PutQuantities, direction \in Directions :
                  PutCall(kind, quantity, direction)
                  => /\ contents[kind] - contents'[kind] <= contents[kind]
                     /\ contents[kind] - contents'[kind]
                            <= IF quantity = 0 THEN 1 ELSE quantity
                     /\ ~DepositOrSale(kind, direction)
                        => contents[kind] - contents'[kind] <= ContentProps(kind).max]_vars

\* a deposit has taken more coins out of the backpack than the coin's max
C8_Witness ==
    /\ res.op = "put"
    /\ res.status = "Ok"
    /\ res.value > ContentProps("Coin").max
    /\ \E r \in 1..Len(map) : \E c \in 1..Len(map[r]) :
           /\ map[r][c].content.kind = "Bank"
           /\ map[r][c].content.n = res.value

\* C9: whenever put returns NotEnoughEnergy, the map, the backpack, the
\* energy and the score are exactly as before the call.
C9_PutNotEnoughEnergyLeavesState ==
    [][res'.op = "put" /\ res'.status = "NotEnoughEnergy"
       => UNCHANGED <<map, contents, energy_level, score>>]_vars

\* a put was refused for lack of energy by a robot holding the content
C9_Witness ==
    /\ res.op = "put"
    /\ res.status = "NotEnoughEnergy"
    /\ contents["Rock"] > 0
    /\ energy_level > 0

\* C10: selling q units of rock, tree or fish, h of them held (here h >= 1),
\* into a Market(k) with k >= 1 removes min(q, h) units, adds 1, 2 or 5 coins
\* per unit, returns the coins credited and leaves Market(k - 1); a Market(0)
\* rejects the sale with OperationNotAllowed.
C10_MarketSale ==
    [][\A kind \in {"Rock", "Tree", "Fish"} :
          \A quantity \in PutQuantities, direction \in Directions :
              (/\ res'.op = "put"
               /\ in_bounds(coordinate, dimension, direction)
               /\ Target(direction).content.kind = "Market"
               /\ contents[kind] >= 1
               /\ PutCall(kind, quantity, direction))
              => LET sold == Min(quantity, contents[kind])
                     coins == market_coins(kind) * sold
                 IN  IF Target(direction).content.n >= 1
                     THEN /\ res'.status = "Ok"
                          /\ res'.value = coins
                          /\ contents' = [contents EXCEPT ![kind] = @ - sold,
                                                          !["Coin"] = @ + coins]
                          /\ TargetAfter(direction).content
                                 = Market(Target(direction).content.n - 1)
                     ELSE res'.status = "OperationNotAllowed"]_vars

\* C11: putting any content kind other than rock, tree or fish onto a market
\* tile that has at least one remaining operation fails with WrongContentUsed.
C11_MarketRejectsOtherKinds ==
    [][\A kind \in ContentKinds \ {"Rock", "Tree", "Fish"} :
          \A quantity \in PutQuantities, direction \in Directions :
              (/\ res'.op = "put"
               /\ in_bounds(coordinate, dimension, direction)
               /\ Target(direction).content.kind = "Market"
               /\ Target(direction).content.n >= 1
               /\ PutCall(kind, quantity, direction))
              => res'.status = "WrongContentUsed"]_vars

\* C12: when go returns OutOfBounds, CannotWalk or NotEnoughEnergy, the
\* robot's coordinate and energy level are the same as before the call.
C12_FailedGoLeavesRobot ==
    [][res'.op = "go" /\ res'.status \in {"OutOfBounds", "CannotWalk", "NotEnoughEnergy"}
       => UNCHANGED <<coordinate, energy_level>>]_vars

\* a go was refused for lack of energy
C12_Witness ==
    /\ res.op = "go"
    /\ res.status = "NotEnoughEnergy"
    /\ energy_level > 0

\* the tile the robot stands on after the step
TileUnderRobotAfter == TileAt(map', coordinate'[1], coordinate'[2])

\* C13: a successful go onto an unactivated teleport tile changes it to
\* activated; once a teleport tile is activated it stays activated under
\* every later engine operation, and moving onto an already activated
\* teleport leaves its flag unchanged.
C13_TeleportActivation ==
    [][/\ \A r \in 1..Len(map) : \A c \in 1..Len(map[r]) :
              map[r][c].tile_type = "Teleport(true)"
              => map'[r][c].tile_type = "Teleport(true)"
       /\ (/\ res'.op = "go"
           /\ res'.status = "Ok"
           /\ IsTeleport(TileAt(map, coordinate'[1], coordinate'[2]).tile_type))
          => TileUnderRobotAfter.tile_type = "Teleport(true)"]_vars

\* the robot has walked onto a teleport, which is activated, while the
\* teleport activated earlier is still activated
C13_Witness ==
    /\ res.op = "go"
    /\ res.status = "Ok"
    /\ TileAt(map, coordinate[1], coordinate[2]).tile_type = "Teleport(true)"
    /\ \E r \in 1..Len(map) : \E c \in 1..Len(map[r]) :
           /\ <<r - 1, c - 1>> # coordinate
           /\ map[r][c].tile_type = "Teleport(true)"

\* both the robot's tile and the target are activated teleports
BothActivated(target) ==
    /\ TileAt(map, coordinate[1], coordinate[2]).tile_type = "Teleport(true)"
    /\ TileAt(map, target[1], target[2]).tile_type = "Teleport(true)"

\* C14: teleport to a target inside the map succeeds only if both the
\* robot's tile and the target tile are activated teleports; otherwise it
\* fails with OperationNotAllowed (OutOfBounds for a target outside the map)
\* and leaves the robot's position and energy unchanged.
C14_TeleportRules ==
    [][\A target \in TeleportTargets :
          (res'.op = "teleport" /\ TeleportCall(target))
          => IF ~go_allowed_row_col(dimension, target[1], target[2])
             THEN /\ res'.status = "OutOfBounds"
                  /\ UNCHANGED <<coordinate, energy_level>>
             ELSE IF ~BothActivated(target)
             THEN /\ res'.status = "OperationNotAllowed"
                  /\ UNCHANGED <<coordinate, energy_level>>
             ELSE res'.status \in {"Ok", "NotEnoughEnergy"}]_vars

\* the robot has teleported after its walk had activated a second teleport
C14_Witness ==
    /\ res.op = "teleport"
    /\ res.status = "Ok"
    /\ energy_level = MAX_ENERGY_LEVEL - TELEPORT_COST
    /\ \E r \in 1..Len(map) : \E c \in 1..Len(map[r]) :
           /\ <<r - 1, c - 1>> # coordinate
           /\ map[r][c].tile_type = "Teleport(true)"

\* the content kinds that carry a quantity
ScalarKinds == ContentKinds \ (UnitKinds \cup RangeKinds)

\* the outcomes of a put, in the given direction, of v units of the kind
\* that a successful destroy in that direction has just taken from Kind(v)
RoundTripPuts(direction) ==
    UNION {put(o.m, o.coord, o.level, o.bp, o.sc, dimension,
               Target(direction).content, Target(direction).content.n, direction) :
           o \in {d \in destroy(map, coordinate, energy_level, contents, score,
                                dimension, direction) : d.status = "Ok"}}

\* the put has given the tile back as it was and the robot has only lost energy
Restored(direction, o) ==
    /\ TileAt(o.m, get_coords_row_col(coordinate, direction)[1],
              get_coords_row_col(coordinate, direction)[2]) = Target(direction)
    /\ o.bp = contents
    /\ o.coord = coordinate
    /\ o.level <= energy_level

\* rock put on these terrains paves them
PavedByRock ==
    {"Grass", "Hill", "Sand", "Snow", "ShallowWater", "DeepWater", "Lava"}

\* C15 as stated: for a tile holding a scalar content kind c with quantity v,
\* a successful destroy followed by a (successful) put of the same kind with
\* requested quantity v leaves the tile with the same terrain and the same
\* content c(v) as before the destroy, and the only net change to the robot
\* is the energy cost of the two actions.
C15_DestroyPutRoundTrip ==
    phase = "running" =>
        \A direction \in Directions :
            (/\ in_bounds(coordinate, dimension, direction)
             /\ Target(direction).content.kind \in ScalarKinds)
            => \A o \in RoundTripPuts(direction) :
                   o.status = "Ok" => Restored(direction, o)

\* C15 amended: the same, for a quantity v that is at most the kind's max
\* and for content other than rock lying on a terrain that a rock put paves
\* (grass, hill, sand, snow, shallow water, deep water, lava).
C15_DestroyPutRoundTripUnpaved ==
    phase = "running" =>
        \A direction \in Directions :
            (/\ in_bounds(coordinate, dimension, direction)
             /\ Target(direction).content.kind \in ScalarKinds
             /\ Target(direction).content.n
                    <= ContentProps(Target(direction).content.kind).max
             /\ ~(/\ Target(direction).content.kind = "Rock"
                  /\ Target(direction).tile_type \in PavedByRock))
            => \A o \in RoundTripPuts(direction) :
                   o.status = "Ok" => Restored(direction, o)

\* a destroy that scored, then a put that gave the generated map back
C15_Witness ==
    /\ res.op = "put"
    /\ res.status = "Ok"
    /\ res.value >= 1
    /\ steps = 2
    /\ score > 0
    /\ map \in {WorldContents, WorldTerrains, WorldOverMax}

\* C16: on any world accepted by check_world and any robot whose backpack
\* total is at most its capacity, every engine entry point returns either Ok
\* or one of the LibError variants; none aborts through a failed unwrap, an
\* arithmetic underflow or an out-of-range index.
C16_NoEngineCallPanics ==
    res.op \in {"go", "teleport", "destroy", "put", "craft"} => res.status # "Panic"

\* the amount of a content exceeds the maximum declared for its kind
OverMax(c) ==
    \/ c.kind \in ScalarKinds /\ c.n > ContentProps(c.kind).max
    \/ c.kind \in RangeKinds /\ c.end > ContentProps(c.kind).max

\* a generated map that construction has to refuse
Flawed(world) ==
    \/ \E r \in 1..Len(world) : Len(world[r]) # Len(world)
    \/ \E r \in 1..Len(world) : \E c \in 1..Len(world[r]) :
           \/ world[r][c].tile_type = "Teleport(true)"
           \/ OverMax(world[r][c].content)
           \/ ~can_hold(world[r][c].tile_type, to_default(world[r][c].content))

\* C17: runner construction fails with WorldIsNotASquare,
\* TeleportIsTrueOnGeneration, ContentValueIsHigherThanMax or
\* ContentNotAllowedOnTile, and creates no runner, whenever the generated map
\* is not square, contains an already activated teleport tile, has a tile
\* whose content amount exceeds the declared maximum for that content, or
\* has a tile whose content its terrain cannot hold.
C17_FlawedWorldRefused ==
    [][\A gen \in Generated, robot \in Robots :
          (/\ res'.op = "new"
           /\ Flawed(gen.map)
           /\ Runner_new(gen, robot))
          => /\ res'.status \in {"WorldIsNotASquare", "TeleportIsTrueOnGeneration",
                                 "ContentValueIsHigherThanMax",
                                 "ContentNotAllowedOnTile"}
             /\ phase' = "invalid"]_vars

\* C18: when destroy targets a tile holding destroyable scalar content of
\* quantity v, the backpack has at least v free space and the energy covers
\* the content's interaction cost, it returns Ok(v), increases the backpack
\* entry of that kind by v, decreases energy by exactly that cost and sets
\* the tile's content to None.
C18_DestroySucceeds ==
    [][\A direction \in Directions :
          (/\ res'.op = "destroy"
           /\ in_bounds(coordinate, dimension, direction)
           /\ Target(direction).content.kind \in ScalarKinds
           /\ ContentProps(Target(direction).content.kind).destroy
           /\ FreeSpace >= Target(direction).content.n
           /\ has_enough_energy(energy_level,
                                ContentProps(Target(direction).content.kind).cost)
           /\ DestroyCall(direction))
          => /\ res'.status = "Ok"
             /\ res'.value = Target(direction).content.n
             /\ contents' = [contents EXCEPT ![Target(direction).content.kind] =
                                                 @ + Target(direction).content.n]
             /\ energy_level' =
                    energy_level - ContentProps(Target(direction).content.kind).cost
             /\ TargetAfter(direction).content = NoContent]_vars

\* a destroy has moved the trees of a tile into an empty backpack
C18_Witness ==
    /\ res.op = "destroy"
    /\ res.status = "Ok"
    /\ res.value >= 1
    /\ contents["Tree"] = res.value
    /\ Total(contents) = res.value
    /\ energy_level = MAX_ENERGY_LEVEL - ContentProps("Tree").cost

\* the kind a receptacle takes
Deposits(c) ==
    CASE c.kind = "Bank" -> "Coin"
      [] c.kind = "Bin" -> "Garbage"
      [] c.kind = "Crate" -> "Tree"

\* the tile in the given direction holds a receptacle s..e with s <= e
Receptacle(direction) ==
    /\ in_bounds(coordinate, dimension, direction)
    /\ Target(direction).content.kind \in RangeKinds
    /\ Target(direction).content.n <= Target(direction).content.end

\* r = min(q, h, e - s) units leave the backpack, the receptacle becomes
\* (s + r)..e and the call returns Ok(r)
Deposited(kind, quantity, direction) ==
    LET range == Target(direction).content
        r == Min(Min(quantity, contents[kind]), range.end - range.n)
    IN  /\ res'.status = "Ok"
        /\ res'.value = r
        /\ contents' = [contents EXCEPT ![kind] = @ - r]
        /\ TargetAfter(direction).content = Content(range.kind, range.n + r, range.end)

\* no receptacle of the map is filled beyond its capacity
ReceptaclesWithinCapacity ==
    \A r \in 1..Len(map) : \A c \in 1..Len(map[r]) :
        map[r][c].content.kind \in RangeKinds
        => map[r][c].content.n <= map[r][c].content.end

\* C19 as stated: depositing coin into a Bank(s..e) (likewise garbage into a
\* Bin, tree into a Crate) with requested quantity q and h units held removes
\* r = min(q, h, e - s) units, turns the receptacle into (s + r)..e and
\* returns Ok(r); hence after any sequence of deposits the filled level of a
\* receptacle never exceeds its capacity.
C19_Deposit ==
    [][/\ res'.op = "put"
          => \A direction \in {d \in Directions : Receptacle(d)} :
                 \A quantity \in PutQuantities :
                     PutCall(Deposits(Target(direction).content), quantity, direction)
                     => Deposited(Deposits(Target(direction).content), quantity,
                                  direction)
       /\ ReceptaclesWithinCapacity']_vars

\* C19 amended: the same for h >= 1 units held; with none held the deposit
\* fails with NoContent and leaves the receptacle as it was.
C19_DepositOfHeld ==
    [][/\ res'.op = "put"
          => \A direction \in {d \in Directions : Receptacle(d)} :
                 \A quantity \in PutQuantities :
                     PutCall(Deposits(Target(direction).content), quantity, direction)
                     => IF contents[Deposits(Target(direction).content)] >= 1
                        THEN Deposited(Deposits(Target(direction).content), quantity,
                                       direction)
                        ELSE /\ res'.status = "NoContent"
                             /\ UNCHANGED <<map, contents>>
       /\ ReceptaclesWithinCapacity']_vars

\* a deposit of two units has filled the bin to its capacity
C19_Witness ==
    /\ res.op = "put"
    /\ res.status = "Ok"
    /\ res.value = 2
    /\ \E r \in 1..Len(map) : \E c \in 1..Len(map[r]) :
           /\ map[r][c].content.kind = "Bin"
           /\ map[r][c].content.n = map[r][c].content.end

\* rocks that paving a terrain takes
RocksToPave(tile_type) ==
    CASE tile_type = "ShallowWater" -> 2
      [] tile_type \in {"DeepWater", "Lava"} -> 3
      [] tile_type \in {"Grass", "Hill", "Sand", "Snow"} -> 1

\* C20: putting rock onto shallow water, deep water or lava converts the
\* terrain to street and removes exactly 2, 3 and 3 rocks respectively
\* (exactly 1 rock for grass, hill, sand and snow); if min(requested
\* quantity, rocks held, rock max) is below the required number, the put
\* fails with NotEnoughContentProvided, energy, backpack and terrain
\* unchanged.  Stated for a robot holding rock and a tile whose content a
\* street can hold.
C20_Paving ==
    [][res'.op = "put" /\ contents["Rock"] >= 1
       => \A direction \in {d \in Directions :
                               /\ in_bounds(coordinate, dimension, d)
                               /\ Target(d).tile_type \in PavedByRock
                               /\ Target(d).content.kind # "Market"
                               /\ can_hold("Street", Target(d).content)} :
              \A quantity \in PutQuantities :
                  PutCall("Rock", quantity, direction)
                  => IF Min(Min(quantity, contents["Rock"]), ContentProps("Rock").max)
                            < RocksToPave(Target(direction).tile_type)
                     THEN /\ res'.status = "NotEnoughContentProvided"
                          /\ UNCHANGED <<energy_level, contents>>
                          /\ TargetAfter(direction).tile_type
                                 = Target(direction).tile_type
                     ELSE res'.status = "Ok"
                          => /\ TargetAfter(direction).tile_type = "Street"
                             /\ contents' =
                                    [contents EXCEPT !["Rock"] =
                                         @ - RocksToPave(Target(direction).tile_type)]]_vars

\* the recipes of kind whose ingredient the backpack holds in full
Supplied(kind) ==
    {i \in 1..Len(ContentProps(kind).craft) :
        contents[ContentProps(kind).craft[i][1]] >= ContentProps(kind).craft[i][2]}

\* C21: when the backpack holds at least the required quantity of a recipe
\* ingredient and the energy covers the crafted content's interaction cost,
\* craft removes exactly the required quantity of that ingredient, decreases
\* energy by exactly that cost, adds exactly one unit of the crafted content
\* and returns Ok.
C21_CraftSucceeds ==
    [][\A kind \in ContentKinds :
          (/\ res'.op = "craft"
           /\ Supplied(kind) # {}
           /\ has_enough_energy(energy_level, ContentProps(kind).cost)
           /\ CraftCall(kind))
          => /\ res'.status = "Ok"
             /\ energy_level' = energy_level - ContentProps(kind).cost
             /\ \E i \in Supplied(kind) :
                    contents' =
                        [contents EXCEPT ![ContentProps(kind).craft[i][1]] =
                                             @ - ContentProps(kind).craft[i][2],
                                         ![kind] = @ + 1]]_vars

\* the tile the robot stands on
TileUnderRobot == TileAt(map, coordinate[1], coordinate[2])

\* the climb of a move onto the tile in the given direction: the elevation
\* difference when the destination is strictly higher, 0 otherwise
Climb(direction) ==
    IF Target(direction).elevation > TileUnderRobot.elevation
    THEN Target(direction).elevation - TileUnderRobot.elevation
    ELSE 0

\* C22: a successful go sets the coordinate to the adjacent cell in the
\* given direction and decreases energy by exactly the destination terrain's
\* base cost adjusted by the weather and time-of-day table, plus (destination
\* elevation - current elevation) squared when the destination is strictly
\* higher and 0 otherwise.
C22_GoCost ==
    [][\A direction \in Directions :
          (res'.op = "go" /\ res'.status = "Ok" /\ GoCall(direction))
          => /\ coordinate' = get_coords_row_col(coordinate, direction)
             /\ energy_level' =
                    energy_level
                    - calculate_cost_go_with_environment(
                          TileTypeProps(Target(direction).tile_type).cost,
                          get_weather_condition(weather_forecast), hour,
                          Target(direction).tile_type)
                    - Climb(direction) * Climb(direction)]_vars

\* the robot has walked in the rain, at night, up a mountain two levels
\* above the grass it came from, after a first move on flat ground
C22_Witness ==
    /\ res.op = "go"
    /\ res.status = "Ok"
    /\ TileUnderRobot.tile_type = "Mountain"
    /\ get_weather_condition(weather_forecast) = "Rainy"
    /\ energy_level = MAX_ENERGY_LEVEL - 4 - 39

\* C23: discover_tiles called with more coordinates than the remaining
\* discovery budget fails NoMoreDiscovery and leaves the budget and the
\* energy level unchanged.
C23_DiscoverOverBudget ==
    [][\A to_discover \in DiscoverRequests :
          (/\ res'.op = "discover_tiles"
           /\ Len(to_discover) > discoverable
           /\ DiscoverTilesCall(to_discover))
          => /\ res'.status = "NoMoreDiscovery"
             /\ UNCHANGED <<discoverable, energy_level>>]_vars

\* a request was refused by a budget that an earlier discovery had reduced,
\* made by a robot whose energy would not have covered it either
C23_Witness ==
    /\ res.op = "discover_tiles"
    /\ res.status = "NoMoreDiscovery"
    /\ 0 < discoverable
    /\ discoverable < World_new_discoverable(dimension)
    /\ energy_level < 3 * 4

\* the coordinate lies inside the map
InsideMap(c) == c[1] < dimension /\ c[2] < dimension

\* C24: a successful discover_tiles over n requested coordinates decreases
\* the discovery budget by exactly n and the energy by exactly 3 times n,
\* counting out-of-map coordinates too, and returns Some(tile) for every
\* in-map coordinate and None for every out-of-map coordinate.
C24_DiscoverSucceeds ==
    [][\A to_discover \in DiscoverRequests :
          (/\ res'.op = "discover_tiles"
           /\ res'.status = "Ok"
           /\ DiscoverTilesCall(to_discover))
          => /\ discoverable' = discoverable - Len(to_discover)
             /\ energy_level' = energy_level - 3 * Len(to_discover)
             /\ DOMAIN returned' = Requested(to_discover)
             /\ \A c \in Requested(to_discover) :
                    returned'[c] = IF InsideMap(c) THEN Some(TileAt(map, c[1], c[2]))
                                   ELSE None]_vars

\* a discovery of three coordinates, one of them outside the map, has used
\* up the budget
C24_Witness ==
    /\ res.op = "discover_tiles"
    /\ res.status = "Ok"
    /\ discoverable = 0
    /\ \E c \in DOMAIN returned : returned[c] = None
    /\ \E c \in DOMAIN returned : returned[c] # None

\* C25: the discovery budget is never replenished: across any sequence of
\* ticks and engine operations its value is non-increasing.
C25_BudgetNeverReplenished ==
    [][res'.op # "new" => discoverable' <= discoverable]_vars

\* a game tick has passed after discoveries had used up part of the budget
C25_Witness ==
    /\ res.op = "game_tick"
    /\ res.status = "Ok"
    /\ steps >= 1
    /\ discoverable < World_new_discoverable(dimension)

\* the tiles between the robot and the edge of the map in a direction
Remaining(direction) ==
    Cardinality({k \in 1..dimension :
                    CASE direction = "Up"    -> coordinate[1] - k >= 0
                      [] direction = "Down"  -> coordinate[1] + k < dimension
                      [] direction = "Left"  -> coordinate[2] - k >= 0
                      [] direction = "Right" -> coordinate[2] + k < dimension})

\* the price of a view of t tiles
ViewPrice(t) == IF t <= 1 THEN 0 ELSE 3 * t

C27_AddToBackpack ==
    [][\A kind \in AddedKinds, quantity \in AddedQuantities :
          (/\ res'.op = "add_to_backpack"
           /\ AddToBackpackCall(kind, quantity))
          => IF FreeSpace < quantity
             THEN /\ contents' = [contents EXCEPT ![kind] = @ + FreeSpace]
                  /\ res'.status = "NotEnoughSpace"
                  /\ res'.value = FreeSpace
             ELSE /\ contents' = [contents EXCEPT ![kind] = @ + quantity]
                  /\ res'.status = "Ok"
                  /\ res'.value = quantity]_vars

\* an addition was cut to the free space left by an earlier one
C27_Witness ==
    /\ res.op = "add_to_backpack"
    /\ res.status = "NotEnoughSpace"
    /\ res.value > 0
    /\ steps = 2
    /\ Total(contents) = BACKPACK_SIZE

MinutesPerDay == 24 * 60

MinuteOfDay(h, m) == h * 60 + m

\* C29: each tick advances the time of day by the configured granularity;
\* it reports a day change exactly when the hour passes 23 and wraps into
\* the next day; on exactly those ticks the weather cycle moves its front
\* to the back, so that after d day changes the cycle is the initial
\* N-entry forecast rotated by d mod N and the current weather its entry
\* d mod N.
C29_TickAdvancesClock ==
    [][res'.op = "tick" =>
          LET reached == MinuteOfDay(hour, minute) + time_progression_minutes
              N == Len(forecast0)
          IN  /\ res'.status = "Ok"
              /\ MinuteOfDay(hour', minute') = reached % MinutesPerDay
              /\ minute' < 60
              /\ (res'.value = 1) <=> (reached >= MinutesPerDay)
              /\ weather_forecast' = IF res'.value = 1
                                     THEN next_day(weather_forecast)
                                     ELSE weather_forecast
              /\ \A i \in 1..N :
                     weather_forecast'[i] = forecast0[((i - 1 + days') % N) + 1]
              /\ get_weather_condition(weather_forecast') = forecast0[(days' % N) + 1]
    ]_vars


\* the energy a level reaches when recharged by the tick's flat amount
Recharged(level) ==
    IF level + energy_to_add > MAX_ENERGY_LEVEL THEN MAX_ENERGY_LEVEL
    ELSE level + energy_to_add

\* what a go in the given direction costs under the clock the tick has
\* just set
GoPriceAfterTick(direction) ==
    calculate_cost_go_with_environment(
        TileTypeProps(Target(direction).tile_type).cost,
        get_weather_condition(weather_forecast'), hour',
        Target(direction).tile_type)
    + Climb(direction) * Climb(direction)

\* C30: every game_tick performs, in this order: it advances the clock and
\* emits exactly one of TimeChanged or DayChanged, runs the robot's decision
\* routine, recharges the energy by 10 saturating at the cap, and emits
\* EnergyRecharged(10).  The routine therefore runs under the new clock and
\* on the energy of before the recharge: an idle routine leaves the energy
\* recharged, a go is priced by the new weather and hour and refused
\* when the energy before the recharge does not cover it.
C30_GameTickOrder ==
    [][(res'.op = "game_tick" /\ res'.status = "Ok")
       => /\ Len(events') = 3
          /\ events'[1].name = IF days' = days + 1 THEN "DayChanged"
                               ELSE "TimeChanged"
          /\ events'[1].value = <<hour', minute', weather_forecast'>>
          /\ events'[2].name = "process_tick"
          /\ events'[3] = Event("EnergyRecharged", 10)
          /\ \A routine \in Routines :
                (events'[2].value.op = routine.call /\ GameTickCall(routine))
                => /\ routine.call = "idle"
                          => energy_level' = Recharged(energy_level)
                   /\ routine.call = "go" =>
                          /\ (/\ in_bounds(coordinate, dimension, routine.direction)
                              /\ energy_level < GoPriceAfterTick(routine.direction))
                                 => /\ events'[2].value.status # "Ok"
                                    /\ energy_level' = Recharged(energy_level)
                          /\ events'[2].value.status = "Ok"
                                 => /\ coordinate' =
                                           get_coords_row_col(coordinate,
                                                              routine.direction)
                                    /\ energy_level' =
                                           Recharged(energy_level
                                                     - GoPriceAfterTick(
                                                           routine.direction))
                   /\ (/\ routine.call = "discover_tiles"
                       /\ events'[2].value.status = "Ok")
                          => energy_level' =
                                 Recharged(energy_level
                                           - 3 * Len(routine.to_discover))]_vars

\* a tick that changed the day has run a go in the rain of the new day, paid
\* from an energy 4 below the cap, and recharged 10 of what the move cost
C30_Witness ==
    /\ res.op = "game_tick"
    /\ res.status = "Ok"
    /\ Len(events) = 3
    /\ events[1].name = "DayChanged"
    /\ events[2].value = Result("go", "Ok", 0)
    /\ events[3].name = "EnergyRecharged"
    /\ get_weather_condition(weather_forecast) = "Rainy"
    /\ energy_level < MAX_ENERGY_LEVEL - 4
    /\ energy_level > MAX_ENERGY_LEVEL - 4 - 10


\* C35: a put that returns any error leaves the target tile (terrain and
\* content, a market's remaining operations included), the backpack and
\* the energy level exactly as they were before the call.
C35_FailedPutLeavesState ==
    [][(res'.op = "put" /\ res'.status \notin {"Ok", "Panic"})
       => /\ map' = map
          /\ contents' = contents
          /\ energy_level' = energy_level]_vars

\* C36: a go that returns an error leaves every tile of the map unchanged;
\* in particular a move onto an unactivated teleport tile that fails
\* NotEnoughEnergy does not activate that tile.
C36_FailedGoLeavesMap ==
    [][(res'.op = "go" /\ res'.status \notin {"Ok", "Panic"}) => map' = map]_vars


\* the errors of destroy that the call returns before it has done anything
DestroyRefusals == {"OutOfBounds", "NoContent", "CannotDestroy", "NotEnoughEnergy"}

\* C38: destroy fails OutOfBounds when the target is off the map, NoContent
\* when a non-water tile is empty, CannotDestroy when the tile's content is
\* not destroyable, and NotEnoughEnergy when the energy is below the
\* content's interaction cost (the cost of water for an empty water tile);
\* in each of these cases energy, backpack, tile and score are unchanged.
C38_DestroyErrors ==
    [][\A direction \in Directions :
          (res'.op = "destroy" /\ DestroyCall(direction))
          => /\ ~in_bounds(coordinate, dimension, direction)
                    => res'.status = "OutOfBounds"
             /\ in_bounds(coordinate, dimension, direction)
                    => LET tile == Target(direction)
                           water == tile.tile_type \in WaterTiles
                           empty == tile.content = NoContent
                           kind == IF empty THEN "Water" ELSE tile.content.kind
                       IN  /\ (~water /\ empty) => res'.status = "NoContent"
                           /\ (~empty /\ ~ContentProps(kind).destroy)
                                  => res'.status = "CannotDestroy"
                           /\ (/\ water \/ ~empty
                               /\ ContentProps(kind).destroy
                               /\ energy_level < ContentProps(kind).cost)
                                  => res'.status = "NotEnoughEnergy"
             /\ res'.status \in DestroyRefusals
                    => UNCHANGED <<energy_level, contents, map, score>>]_vars


\* the positions of the events of the given names in a log
Positions(log, names) == {i \in DOMAIN log : log[i].name \in names}

\* C39: in every successful go, destroy and put that consumes energy, the
\* EnergyConsumed event is emitted before the Moved or TileContentUpdated
\* event of that call, and the Moved or TileContentUpdated event carries the
\* tile as it is after the mutation (Moved the tile the robot arrived on,
\* TileContentUpdated the tile next to the robot that the call was aimed at).
C39_EnergyConsumedFirst ==
    [][(/\ res'.op \in {"go", "destroy", "put"}
        /\ res'.status = "Ok"
        /\ energy_level' < energy_level)
       => LET charges == Positions(events', {"EnergyConsumed"})
              changes == Positions(events', {"Moved", "TileContentUpdated"})
          IN  /\ charges # {}
              /\ changes # {}
              /\ \A i \in charges, j \in changes : i < j
              /\ \A i \in charges : events'[i].value = energy_level - energy_level'
              /\ \A j \in changes :
                    LET at == events'[j].value[2]
                    IN  /\ events'[j].value[1] = TileAt(map', at[1], at[2])
                        /\ IF res'.op = "go"
                           THEN /\ events'[j].name = "Moved"
                                /\ at = coordinate'
                           ELSE /\ events'[j].name = "TileContentUpdated"
                                /\ \E direction \in Directions :
                                       at = get_coords_row_col(coordinate, direction)
    ]_vars

\* a put has paved a tile: the robot was told of the energy first and then
\* of the tile, which it was shown as a street
C39_Witness ==
    /\ res.op = "put"
    /\ res.status = "Ok"
    /\ Len(events) = 2
    /\ events[1].name = "EnergyConsumed"
    /\ events[1].value > 0
    /\ events[2].name = "TileContentUpdated"
    /\ events[2].value[1].tile_type = "Street"
    /\ \E r \in 1..dimension, c \in 1..dimension :
           /\ events[2].value[2] = <<r - 1, c - 1>>
           /\ map[r][c] = events[2].value[1]
           /\ WorldTerrains[r][c].tile_type # "Street"


\* C40: robot_map returns Some(tile) at exactly the coordinates that have
\* been returned by robot_view (the views returned by go and teleport
\* included), one_direction_view or discover_tiles in the current world,
\* each showing the tile's current state, and None at every other
\* coordinate.
C40_RobotMapOfViewed ==
    [][res'.op = "robot_map"
       => /\ res'.status = "Ok"
          /\ returned' = [r \in 1..dimension |->
                            [c \in 1..dimension |->
                                IF <<r - 1, c - 1>> \in viewed
                                THEN Some(TileAt(map, r - 1, c - 1)) ELSE None]]]_vars


\* the coordinates next to (r, c) inside the matrix
Adjacent(matrix, r, c) ==
    {rc \in {<<r - 1, c>>, <<r + 1, c>>, <<r, c - 1>>, <<r, c + 1>>} :
        /\ rc[1] \in 0..(Len(matrix) - 1)
        /\ rc[2] \in 0..(Len(matrix[1]) - 1)}

Walkable(tile) == TileTypeProps(tile.tile_type).walk

\* the edges the tile at (r, c) is to have
EdgesOf(matrix, r, c) ==
    IF ~Walkable(TileAt(matrix, r, c))
    THEN {}
    ELSE {Node(rc[1] * Len(matrix[1]) + rc[2],
               TileTypeProps(TileAt(matrix, rc[1], rc[2]).tile_type).cost
               + IF TileAt(matrix, rc[1], rc[2]).elevation > TileAt(matrix, r, c).elevation
                 THEN (TileAt(matrix, rc[1], rc[2]).elevation
                       - TileAt(matrix, r, c).elevation)
                      * (TileAt(matrix, rc[1], rc[2]).elevation
                         - TileAt(matrix, r, c).elevation)
                 ELSE 0)
          : rc \in {a \in Adjacent(matrix, r, c) : Walkable(TileAt(matrix, a[1], a[2]))}}

\* C31: change_matrix labels the tile at (row, col) with row times width
\* plus col; a walkable tile has one edge to each walkable tile next to it
\* in the four directions, weighing the neighbour's traversal cost plus the
\* squared difference of elevation when the neighbour is strictly higher; a
\* tile that is not walkable has no edge out, and no edge leads to one.
C31_ChangeMatrixEdges ==
    graph # << >>
    => /\ Len(graph) = Len(map) * Len(map[1])
       /\ \A r \in 0..(Len(map) - 1), c \in 0..(Len(map[1]) - 1) :
             LET edges == graph[r * Len(map[1]) + c + 1]
             IN  /\ {edges[i] : i \in 1..Len(edges)} = EdgesOf(map, r, c)
                 /\ Len(edges) = Cardinality(EdgesOf(map, r, c))

\* change_matrix has run on a matrix that is not square, with a climb and
\* with a tile that is not walkable
C31_Witness ==
    /\ phase = "graph"
    /\ Len(map) # Len(map[1])
    /\ \E n \in 1..Len(graph) : graph[n] = << >>
    /\ \E n \in 1..Len(graph) : \E i \in 1..Len(graph[n]) :
          graph[n][i].distance
              > TileTypeProps(LabelTile(map, graph[n][i].index).tile_type).cost


\* a weight above that of every path, written for a node that no path leads to
Infinity == INF \div 16

Nodes(g) == 0..(Len(g) - 1)

EdgeSet(g, u) == {g[u + 1][i] : i \in 1..Len(g[u + 1])}

Least(S) == CHOOSE x \in S : \A y \in S : x <= y

\* one more edge: the least weight of a path to each node that is a path
\* counted in before, or one of them and an edge
OneMoreEdge(g, before) ==
    [n \in Nodes(g) |->
        Least({before[n]}
              \cup UNION {{before[u] + e.distance :
                             e \in {f \in EdgeSet(g, u) : f.index = n}}
                          : u \in {v \in Nodes(g) : before[v] < Infinity}})]

RECURSIVE LeastWeight(_, _)
\* the least weights of the paths to each node, from those of the paths
\* counted in before, one edge more at a time until nothing gets lighter
LeastWeight(g, before) ==
    LET after == OneMoreEdge(g, before)
    IN  IF after = before THEN before ELSE LeastWeight(g, after)

\* the least weight of a path from s to each node, Infinity when there is none
Distances(g, s) == LeastWeight(g, [n \in Nodes(g) |-> IF n = s THEN 0 ELSE Infinity])

EdgeWeight(g, u, v) ==
    IF \E e \in EdgeSet(g, u) : e.index = v
    THEN (CHOOSE e \in EdgeSet(g, u) : e.index = v).distance
    ELSE Infinity

RECURSIVE PathWeight(_, _, _)
\* the weight of the edges of the path p from its i-th node on
PathWeight(g, p, i) ==
    IF i >= Len(p) THEN 0 ELSE EdgeWeight(g, p[i], p[i + 1]) + PathWeight(g, p, i + 1)

\* C32: when dijkstra returns, the distance of every node reachable from
\* the start is the least total weight of a path from the start to it, and
\* the path that follows the predecessors back from the node runs from the
\* start to the node with that total weight, whichever of the entries of
\* equal distance the heap popped first.
C32_DijkstraLeastWeight ==
    phase = "searched"
    => \A n \in Nodes(graph) :
          LET least == Distances(graph, path_start)[n]
              p == walk_back(predecessors, n, << >>)
          IN  least < Infinity
              => /\ shortest_distances[n + 1] = Some(least)
                 /\ p[1] = path_start
                 /\ p[Len(p)] = n
                 /\ PathWeight(graph, p, 1) = least

\* dijkstra has returned on a graph where two paths of the least weight,
\* through different nodes, lead to a node
C32_Witness ==
    /\ phase = "searched"
    /\ \E n \in Nodes(graph) \ {path_start} :
          LET least == Distances(graph, path_start)
          IN  /\ least[n] < Infinity
              /\ shortest_distances[n + 1] = Some(least[n])
              /\ \E u1, u2 \in Nodes(graph) :
                    /\ u1 # u2
                    /\ least[u1] + EdgeWeight(graph, u1, n) = least[n]
                    /\ least[u2] + EdgeWeight(graph, u2, n) = least[n]


\* the nodes of the list l
Listed(l) == {l[i] : i \in 1..Len(l)}

FollowsEdges(g, p) ==
    \A i \in 1..(Len(p) - 1) : \E e \in EdgeSet(g, p[i]) : e.index = p[i + 1]

\* C33: the reconstruction of the path to a target returns None exactly
\* when the target cannot be reached from the source; for a target that can
\* be reached it returns nodes that start at the source, end at the target
\* and follow edges of the graph.
C33_ReconstructedPaths ==
    phase = "searched"
    => \A t \in Listed(target_nodes) :
          LET path == reconstruct_shortest_path(predecessors, t)
          IN  IF Distances(graph, path_start)[t] < Infinity
              THEN /\ path # None
                   /\ path[1][1] = path_start
                   /\ path[1][Len(path[1])] = t
                   /\ FollowsEdges(graph, path[1])
              ELSE path = None


\* the pending targets that can be reached from the current position
ReachablePending ==
    {t \in Listed(target_nodes) : Distances(graph, path_start)[t] < Infinity}

\* the label reached from label by the directions from the i-th on
RECURSIVE Walked(_, _, _, _)
Walked(matrix, label, directions, i) ==
    IF i > Len(directions)
    THEN label
    ELSE Walked(matrix,
                CASE directions[i] = "Up" -> label - Len(matrix[1])
                  [] directions[i] = "Down" -> label + Len(matrix[1])
                  [] directions[i] = "Left" -> label - 1
                  [] directions[i] = "Right" -> label + 1,
                directions, i + 1)

\* C34: at each turn build_path commits to the pending target of least
\* shortest-path cost from the current position among those that can be
\* reached: it appends the segment that leads from the current position to
\* it, continues from it and takes it off the pending list; what it returns
\* has one segment for each target of the input.
C34_GreedyRoute ==
    [][/\ (phase = "searched" /\ ReachablePending # {})
          => \E t \in ReachablePending :
                /\ \A other \in ReachablePending :
                      Distances(graph, path_start)[t]
                          <= Distances(graph, path_start)[other]
                /\ path_start' = t
                /\ target_nodes' = retain(target_nodes, t)
                /\ Len(final_path') = Len(final_path) + 1
                /\ Walked(map, path_start, final_path'[Len(final_path')], 1) = t
       /\ phase' = "built" => Len(final_path') = Len(targets0)]_vars


\* C37: build_path terminates for every graph, start node and list of
\* targets, the lists that hold the start node or an unreachable node and
\* the lists returned by find_connected_targets included.
C37_BuildPathReturns == <>(phase = "built")

====
